---- MODULE Spec2Model ----
(***************************************************************************)
(* Food-Memory: a model of the upload pipeline (app/api/upload/route.ts)   *)
(* and of the proximity grouping of the client (app/FoodMemoryApp.tsx).    *)
(*                                                                         *)
(* SpecUpload follows one POST /upload request through validation, the     *)
(* two parallel external calls, the identification call, the blob writes   *)
(* and the insert.  SpecGroup runs the dishGroups loop over a record list. *)
(* SpecPatch, SpecBackfill and SpecTags follow the PATCH route, the        *)
(* backfill jobs and the tag editing of the client.  SpecView follows the  *)
(* markers, the selection and the map, SpecUploads and SpecConfirm the     *)
(* upload and its confirmation in the client, SpecViewer the fullscreen    *)
(* viewer.                                                                 *)
(*                                                                         *)
(* route.ts holds two versions of POST; the model follows the current one  *)
(* (the first, which calls the external services itself).                  *)
(***************************************************************************)
EXTENDS Integers, Sequences, FiniteSets, TLC

(***************************************************************************)
(* Values                                                                  *)
(***************************************************************************)

\* JavaScript null / undefined in a string-valued position.
NULL == "<null>"

\* A string is falsy when it is null, undefined or empty.
Falsy(s) == s = NULL \/ s = ""

\* A JavaScript number: a finite value, NaN or an infinity.
Num(v) == [k |-> "num", v |-> v]
NaN == [k |-> "nan", v |-> 0]
PosInf == [k |-> "inf", v |-> 1]
NegInf == [k |-> "inf", v |-> -1]

Digits == {"0", "1", "2", "3", "4", "5", "6", "7", "8", "9"}

DigitValue(c) ==
    CASE c = "0" -> 0 [] c = "1" -> 1 [] c = "2" -> 2 [] c = "3" -> 3
      [] c = "4" -> 4 [] c = "5" -> 5 [] c = "6" -> 6 [] c = "7" -> 7
      [] c = "8" -> 8 [] c = "9" -> 9

\* Length of the longest prefix of s made of decimal digits.
RECURSIVE DigitPrefixLen(_)
DigitPrefixLen(s) ==
    IF s = <<>> \/ s[1] \notin Digits THEN 0 ELSE 1 + DigitPrefixLen(Tail(s))

\* Value of a sequence of decimal digits.
RECURSIVE DigitsValue(_)
DigitsValue(s) ==
    IF s = <<>> THEN 0
    ELSE 10 * DigitsValue(SubSeq(s, 1, Len(s) - 1)) + DigitValue(s[Len(s)])

\* parseFloat on a form field given as a sequence of characters (the word
\* Infinity is one token; whole degrees only).  A missing field is read as
\* the string "null" by the cast, which has no numeric prefix: <<>> here.
\* An optional sign, then Infinity or the longest digit prefix; whatever
\* follows the prefix is ignored; no prefix gives NaN.
parseFloat(s) ==
    LET neg == s # <<>> /\ s[1] = "-"
        body == IF neg THEN Tail(s) ELSE s
        n == DigitPrefixLen(body)
    IN  IF body # <<>> /\ body[1] = "Infinity"
        THEN (IF neg THEN NegInf ELSE PosInf)
        ELSE IF n = 0 THEN NaN
        ELSE Num((IF neg THEN -1 ELSE 1) * DigitsValue(SubSeq(body, 1, n)))

isNaN(x) == x.k = "nan"

\* Form values the model draws latitude and longitude from.
LatitudeFields ==
    { <<>>, <<"x">>, <<"Infinity">>, <<"4", "0">>, <<"4", "0", "x">>,
      <<"9", "1">> }

LongitudeFields ==
    { <<>>, <<"-", "7", "3">>, <<"-", "1", "8", "1">> }

\* photoTakenAt form values: missing, an ISO date, a string that is no date.
PhotoTakenAtFields == {NULL, "2026-02-01T12:00:00Z", "garbage"}

\* new Date(s) is an Invalid Date, so toISOString() throws a RangeError.
InvalidDate(s) == s = "garbage"

(***************************************************************************)
(* Place candidates                                                        *)
(***************************************************************************)

\* Length bound of the place-search result list.
MaxCandidates == 2

\* The places the search service may return; two of them share a name.
Places ==
    { [name |-> "A", place_id |-> "p1"],
      [name |-> "B", place_id |-> "p2"],
      [name |-> "A", place_id |-> "p3"] }

RECURSIVE SeqsUpTo(_, _)
SeqsUpTo(S, n) ==
    IF n = 0 THEN {<<>>}
    ELSE LET shorter == SeqsUpTo(S, n - 1)
         IN  shorter \cup {Append(q, x) : q \in shorter, x \in S}

PlaceLists == SeqsUpTo(Places, MaxCandidates)

\* A place link; NullUrl is JavaScript null.
NullUrl == [query |-> NULL, query_place_id |-> NULL]
MapsUrl(name, pid) == [query |-> name, query_place_id |-> pid]

\* A helper's outcome: a returned value or a thrown exception.
Returned(v) == [threw |-> FALSE, value |-> v]
Threw == [threw |-> TRUE, value |-> <<>>]

(***************************************************************************)
(* Helpers of the upload route                                             *)
(***************************************************************************)

\* What a fetch can end as: a transport error, a non-success status, or a
\* success response.
FetchKinds == {"throw", "nonok", "ok"}

\* Outcomes of the place-search fetch; a success carries data.results.
PlaceOutcomes ==
    {[kind |-> k, results |-> <<>>] : k \in {"throw", "nonok"}}
        \cup {[kind |-> "ok", results |-> l] : l \in PlaceLists}

\* A variant that lets a transport error of the fetch escape.
findNearbyRestaurants_Uncaught(out) ==
    IF out.kind = "ok" THEN Returned(out.results)
    ELSE IF out.kind = "throw" THEN Threw
    ELSE Returned(<<>>)

\* findNearbyRestaurants, from the fetch on: every failure is caught and
\* gives the empty list; a success gives the (name, place_id) pairs.
findNearbyRestaurants(out) ==
    IF out.kind = "ok" THEN Returned(out.results) ELSE Returned(<<>>)

\* The foreground-type hints of removeBackgroundWithRemoveBg, in loop order.
types == <<"auto", "product">>

\* The uploaded image bytes, and the bytes the removal service returns.
imageArrayBuffer == "jpg-bytes"
ProcessedBytes(type) == IF type = "auto" THEN "png-auto" ELSE "png-product"

\* A variant that goes through every type and keeps the last answer.
removeBgTurn_NoReturn(i, ok) ==
    IF i < Len(types) THEN [next |-> "retry", buffer |-> NULL]
    ELSE [next |-> "return",
          buffer |-> IF ok THEN ProcessedBytes(types[i]) ELSE NULL]

\* One turn of the loop of removeBackgroundWithRemoveBg, attempt i having
\* ended ok or not: return the processed bytes, go on to the next type, or
\* leave the loop and return null.
removeBgTurn(i, ok) ==
    IF ok THEN [next |-> "return", buffer |-> ProcessedBytes(types[i])]
    ELSE IF i < Len(types) THEN [next |-> "retry", buffer |-> NULL]
    ELSE [next |-> "return", buffer |-> NULL]

\* A variant that links the first candidate whatever its name.
buildMapsUrl_FirstPlace(restaurants, name) ==
    IF Falsy(name) \/ restaurants = <<>> THEN NullUrl
    ELSE MapsUrl(name, restaurants[1].place_id)

\* buildMapsUrl: the link of the first candidate whose name is the given one.
buildMapsUrl(restaurants, name) ==
    IF Falsy(name) THEN NullUrl
    ELSE LET hits == {i \in 1..Len(restaurants) : restaurants[i].name = name}
         IN  IF hits = {} THEN NullUrl
             ELSE LET i == CHOOSE j \in hits : \A h \in hits : j <= h
                  IN  MapsUrl(restaurants[i].name, restaurants[i].place_id)

\* restaurants[0]?.name ?? null
FirstName(restaurants) ==
    IF restaurants = <<>> THEN NULL ELSE restaurants[1].name

Identified(dish, restaurant, url) ==
    [dishName |-> dish, restaurantName |-> restaurant, googleMapsUrl |-> url]

\* identifyDishAndRestaurant without an OPENAI_API_KEY: no call, the first
\* candidate.
identifyWithoutKey(restaurants) ==
    IF restaurants = <<>> THEN Identified(NULL, NULL, NullUrl)
    ELSE Identified(NULL, restaurants[1].name,
                    MapsUrl(restaurants[1].name, restaurants[1].place_id))

\* Names the vision model may answer with: a candidate's or any other.
AnswerNames == {"A", "B", "Elsewhere", NULL}

\* Outcomes of the identification fetch.  A success carries the trimmed
\* message content: empty, free text, or JSON with dish and restaurant
\* (NULL: the key is missing or empty).
IdentifyOutcomes ==
    {[kind |-> k, content |-> "", dish |-> NULL, restaurant |-> NULL] :
        k \in {"throw", "nonok"}}
    \cup {[kind |-> "ok", content |-> c, dish |-> NULL, restaurant |-> NULL] :
            c \in {"", "Beef Pho"}}
    \cup {[kind |-> "ok", content |-> "json", dish |-> d, restaurant |-> r] :
            d \in {NULL, "Beef Pho"}, r \in AnswerNames}

\* A variant whose failure paths assign no restaurant.
Fallback_NoRestaurant(restaurants, dish) == Identified(dish, NULL, NullUrl)

\* The fallback of every failure path: the first candidate.
Fallback(restaurants, dish) ==
    Identified(dish, FirstName(restaurants),
               buildMapsUrl(restaurants, FirstName(restaurants)))

\* identifyDishAndRestaurant, from the fetch on.
identifyDishAndRestaurant(restaurants, out) ==
    IF out.kind = "throw" THEN Returned(Fallback(restaurants, NULL))
    ELSE IF restaurants = <<>> THEN
        IF out.kind = "nonok" THEN Returned(Identified(NULL, NULL, NullUrl))
        ELSE Returned(Identified(IF out.content = "" THEN NULL ELSE out.content,
                                 NULL, NullUrl))
    ELSE IF out.kind = "nonok" THEN Returned(Fallback(restaurants, NULL))
    ELSE IF out.content = "" THEN Returned(Fallback(restaurants, NULL))
    ELSE IF out.content # "json" THEN Returned(Fallback(restaurants, out.content))
    ELSE LET restaurantName ==
                 IF ~Falsy(out.restaurant) THEN out.restaurant
                 ELSE FirstName(restaurants)
         IN  Returned(Identified(out.dish, restaurantName,
                                 buildMapsUrl(restaurants, restaurantName)))

\* !original || isNaN(latitude) || isNaN(longitude)
ValidationFails(orig, lat, lon) == ~orig \/ isNaN(lat) \/ isNaN(lon)

\* A variant that goes on as soon as one of the two has resolved.
BothSettled_Either(placeSettled, bgSettled) == placeSettled \/ bgSettled

\* Promise.all of the place search and the background removal has resolved.
BothSettled(placeSettled, bgSettled) == placeSettled /\ bgSettled

\* A variant without the fallback to the original bytes.
croppedBuffer_NoFallback(bgBuffer) == bgBuffer

\* bgRemovedBuffer || imageArrayBuffer
croppedBuffer(bgBuffer) == IF bgBuffer # NULL THEN bgBuffer ELSE imageArrayBuffer

\* bgRemovedBuffer ? 'png' : 'jpg'
croppedExtension(bgBuffer) == IF bgBuffer # NULL THEN "png" ELSE "jpg"

\* A blob reference; NullRef is no reference.
NullRef == <<>>
BlobUrl(dir, name) == <<dir, name>>

\* DECIMAL(10, 8) and DECIMAL(11, 8): two, resp. three, integer digits.
FitsLatitude(x) == x.k = "num" /\ x.v > -100 /\ x.v < 100
FitsLongitude(x) == x.k = "num" /\ x.v > -1000 /\ x.v < 1000

(***************************************************************************)
(* State of one POST /upload request and of what it writes                 *)
(***************************************************************************)
VARIABLES
    pc,               \* where POST is: idle, parallel, identify, put, insert, done
    original,         \* the form has an image part
    latitude,         \* parseFloat of the latitude field
    longitude,        \* parseFloat of the longitude field
    photoTakenAt,     \* the photoTakenAt field
    placeOutcome,     \* none, pending, nokey, throw, nonok, ok
    placeCalls,       \* number of place-search requests sent
    restaurants,      \* what findNearbyRestaurants resolved to
    bgCalls,          \* the removal requests sent, in order: [type, result]
    bgSettled,        \* removeBackgroundWithRemoveBg has resolved
    bgRemovedBuffer,  \* what it resolved to
    identifyOutcome,  \* none, pending, nokey, throw, nonok, ok
    identifyCalls,    \* the candidate lists sent to the vision model, in order
    identified,       \* what identifyDishAndRestaurant resolved to
    blobs,            \* blob storage: a set of [url, content]
    db,               \* the food_memories table, in id order
    response          \* the HTTP response: [status, id, nearby_restaurants]

uploadVars ==
    <<pc, original, latitude, longitude, photoTakenAt, placeOutcome, placeCalls,
      restaurants, bgCalls, bgSettled, bgRemovedBuffer, identifyOutcome,
      identifyCalls, identified, blobs, db, response>>

\* No response yet; an error response with its message; the created row.
NoResponse ==
    [status |-> 0, error |-> NULL, id |-> 0, nearby_restaurants |-> <<>>]
ErrorResponse(status, error) ==
    [status |-> status, error |-> error, id |-> 0, nearby_restaurants |-> <<>>]
Created(row, names) ==
    [status |-> 200, error |-> NULL, id |-> row.id, nearby_restaurants |-> names]

InitUpload ==
    /\ pc = "idle"
    /\ original = FALSE
    /\ latitude = NaN
    /\ longitude = NaN
    /\ photoTakenAt = NULL
    /\ placeOutcome = "none"
    /\ placeCalls = 0
    /\ restaurants = <<>>
    /\ bgCalls = <<>>
    /\ bgSettled = FALSE
    /\ bgRemovedBuffer = NULL
    /\ identifyOutcome = "none"
    /\ identifyCalls = <<>>
    /\ identified = Identified(NULL, NULL, NullUrl)
    /\ blobs = {}
    /\ db = <<>>
    /\ response = NoResponse

\* The catch block of POST: whatever was thrown becomes a 500 that carries
\* the error's message.
Catch(message) ==
    /\ pc' = "done"
    /\ response' = ErrorResponse(500, message)

\* POST up to Promise.all: the form is read and validated; a valid request
\* starts the place search (when GOOGLE_PLACES_API_KEY is set) and the first
\* removal attempt.
POST_Start ==
    /\ pc = "idle"
    /\ \E orig \in BOOLEAN, latF \in LatitudeFields, lonF \in LongitudeFields,
          taken \in PhotoTakenAtFields, placesKey \in BOOLEAN :
        /\ original' = orig
        /\ latitude' = parseFloat(latF)
        /\ longitude' = parseFloat(lonF)
        /\ photoTakenAt' = taken
        /\ IF ValidationFails(orig, parseFloat(latF), parseFloat(lonF))
           THEN /\ pc' = "done"
                /\ response' = ErrorResponse(400, "Missing image or location data")
                /\ UNCHANGED <<placeOutcome, placeCalls, bgCalls>>
           ELSE /\ pc' = "parallel"
                /\ response' = response
                /\ placeOutcome' = IF placesKey THEN "pending" ELSE "nokey"
                /\ placeCalls' = IF placesKey THEN placeCalls + 1 ELSE placeCalls
                /\ bgCalls' = <<[type |-> types[1], result |-> "pending"]>>
    /\ UNCHANGED <<restaurants, bgSettled, bgRemovedBuffer, identifyOutcome,
                   identifyCalls, identified, blobs, db>>

PlaceSettled == placeOutcome \in {"nokey", "throw", "nonok", "ok"}

\* The place-search fetch ends and findNearbyRestaurants resolves.
FindNearbyReturns ==
    /\ pc = "parallel"
    /\ placeOutcome = "pending"
    /\ \E out \in PlaceOutcomes :
        LET r == findNearbyRestaurants(out)
        IN  /\ placeOutcome' = out.kind
            /\ IF r.threw
               THEN Catch("fetch failed") /\ UNCHANGED restaurants
               ELSE restaurants' = r.value /\ UNCHANGED <<pc, response>>
    /\ UNCHANGED <<original, latitude, longitude, photoTakenAt, placeCalls,
                   bgCalls, bgSettled, bgRemovedBuffer, identifyOutcome,
                   identifyCalls, identified, blobs, db>>

\* The removal fetch in flight ends: the loop returns or sends the next one.
RemoveBgReturns ==
    /\ pc = "parallel"
    /\ ~bgSettled
    /\ \E kind \in FetchKinds :
        LET i == Len(bgCalls)
            turn == removeBgTurn(i, kind = "ok")
            ended == [bgCalls EXCEPT ![i].result = kind]
        IN  IF turn.next = "retry"
            THEN /\ bgCalls' = Append(ended, [type |-> types[i + 1],
                                              result |-> "pending"])
                 /\ UNCHANGED <<bgSettled, bgRemovedBuffer>>
            ELSE /\ bgCalls' = ended
                 /\ bgSettled' = TRUE
                 /\ bgRemovedBuffer' = turn.buffer
    /\ UNCHANGED <<pc, original, latitude, longitude, photoTakenAt, placeOutcome,
                   placeCalls, restaurants, identifyOutcome, identifyCalls,
                   identified, blobs, db, response>>

\* Promise.all has resolved and identifyDishAndRestaurant is called: without
\* an OPENAI_API_KEY it resolves at once, otherwise it sends its request.
POST_Identify ==
    /\ pc = "parallel"
    /\ BothSettled(PlaceSettled, bgSettled)
    /\ \E openaiKey \in BOOLEAN :
        IF openaiKey
        THEN /\ pc' = "identify"
             /\ identifyOutcome' = "pending"
             /\ identifyCalls' = Append(identifyCalls, restaurants)
             /\ UNCHANGED identified
        ELSE /\ pc' = "put"
             /\ identifyOutcome' = "nokey"
             /\ identified' = identifyWithoutKey(restaurants)
             /\ UNCHANGED identifyCalls
    /\ UNCHANGED <<original, latitude, longitude, photoTakenAt, placeOutcome,
                   placeCalls, restaurants, bgCalls, bgSettled, bgRemovedBuffer,
                   blobs, db, response>>

\* The identification fetch ends and identifyDishAndRestaurant resolves.
IdentifyReturns ==
    /\ pc = "identify"
    /\ \E out \in IdentifyOutcomes :
        LET r == identifyDishAndRestaurant(restaurants, out)
        IN  /\ identifyOutcome' = out.kind
            /\ IF r.threw
               THEN Catch("fetch failed") /\ UNCHANGED identified
               ELSE /\ identified' = r.value
                    /\ pc' = "put"
                    /\ UNCHANGED response
    /\ UNCHANGED <<original, latitude, longitude, photoTakenAt, placeOutcome,
                   placeCalls, restaurants, bgCalls, bgSettled, bgRemovedBuffer,
                   identifyCalls, blobs, db>>

OriginalUrl == BlobUrl("originals", "photo.jpg")
CroppedUrl == BlobUrl("cropped", croppedExtension(bgRemovedBuffer))

\* Promise.all of the two put calls: each one writes its blob or throws; one
\* throwing aborts the request and leaves the other's blob behind.
POST_PutBlobs ==
    /\ pc = "put"
    /\ \E okOriginal \in BOOLEAN, okCropped \in BOOLEAN :
        /\ blobs' = blobs
               \cup (IF okOriginal
                     THEN {[url |-> OriginalUrl, content |-> imageArrayBuffer]}
                     ELSE {})
               \cup (IF okCropped
                     THEN {[url |-> CroppedUrl,
                            content |-> croppedBuffer(bgRemovedBuffer)]}
                     ELSE {})
        /\ IF okOriginal /\ okCropped
           THEN pc' = "insert" /\ UNCHANGED response
           ELSE Catch("put failed")
    /\ UNCHANGED <<original, latitude, longitude, photoTakenAt, placeOutcome,
                   placeCalls, restaurants, bgCalls, bgSettled, bgRemovedBuffer,
                   identifyOutcome, identifyCalls, identified, db>>

\* The row the INSERT writes; id is the next value of the SERIAL column.
NewRow ==
    [id |-> Len(db) + 1,
     original_image_url |-> OriginalUrl,
     cropped_image_url |-> CroppedUrl,
     latitude |-> latitude,
     longitude |-> longitude,
     dish_name |-> identified.dishName,
     restaurant_name |-> identified.restaurantName,
     photo_taken_at |-> IF Falsy(photoTakenAt) THEN NULL ELSE photoTakenAt,
     google_maps_url |-> identified.googleMapsUrl]

\* The statement cannot run: toISOString() throws on an invalid date, and the
\* DECIMAL columns reject a value out of their precision.
InsertRejected ==
    \/ (~Falsy(photoTakenAt) /\ InvalidDate(photoTakenAt))
    \/ ~FitsLatitude(latitude)
    \/ ~FitsLongitude(longitude)

\* The INSERT and the response: the row is written and returned with the
\* candidate names, or the statement throws.
POST_Insert ==
    /\ pc = "insert"
    /\ \E dbOk \in BOOLEAN :
        IF dbOk /\ ~InsertRejected
        THEN /\ db' = Append(db, NewRow)
             /\ pc' = "done"
             /\ response' = Created(NewRow, [i \in 1..Len(restaurants) |->
                                                 restaurants[i].name])
        ELSE Catch("insert failed") /\ UNCHANGED db
    /\ UNCHANGED <<original, latitude, longitude, photoTakenAt, placeOutcome,
                   placeCalls, restaurants, bgCalls, bgSettled, bgRemovedBuffer,
                   identifyOutcome, identifyCalls, identified, blobs>>

(***************************************************************************)
(* Proximity grouping (dishGroups)                                         *)
(***************************************************************************)

\* Number of records in the list that is grouped.
MaxMemories == 3

\* Coordinates of the grouped records are offsets from (0, 0) in units of
\* 1e-5 degree.  That close to the equator the haversine distance is
\* R * sqrt(dLat^2 + dLon^2) with the differences in radians (the cosines
\* are 1 to nine digits), i.e. 1.11194927 m per unit.
GridLatitudes == {0, 44, 46}
GridLongitudes == {0}

\* Restaurant names of the grouped records; null and empty are both falsy.
GroupNames == {NULL, "", "A", "a"}

RECURSIVE ISqrtIn(_, _, _)
ISqrtIn(n, lo, hi) ==
    IF lo >= hi THEN lo
    ELSE LET mid == (lo + hi + 1) \div 2
         IN  IF mid * mid <= n THEN ISqrtIn(n, mid, hi) ELSE ISqrtIn(n, lo, mid - 1)

\* Largest r with r * r <= n, for 0 <= n < 2^30.
ISqrt(n) == ISqrtIn(n, 0, 32767)

\* R * PI / 180 * 1e-5 metres, in units of 1e-4 m: the length of one grid unit.
UnitLength == 11119

\* getDistanceMeters, in centimetres (rounded down).
getDistanceMeters(lat1, lon1, lat2, lon2) ==
    LET dLat == lat2 - lat1
        dLon == lon2 - lon1
    IN  (UnitLength * ISqrt((dLat * dLat + dLon * dLon) * 10000)) \div 10000

\* The grouping threshold, 50 m, in centimetres.
Threshold == 5000

\* Timestamps as the ISO strings the records carry, and the instant each
\* one denotes (new Date(s).getTime()).
Timestamps == {"T1", "T2", "T3"}

getTime(s) == CASE s = "T1" -> 1 [] s = "T2" -> 2 [] s = "T3" -> 3

\* Capture timestamps (null when the photo carried none) and creation
\* timestamps of the records whose dates vary.
CaptureTimes == {NULL, "T1", "T3"}
CreationTimes == {"T1", "T2"}

\* Restaurant names of the records whose dates vary.
TimedNames == {NULL, "A"}

\* A record of the client's list, as far as grouping and sorting read it.
Memory(id, name, lat, lon, taken, created) ==
    [id |-> id, restaurant_name |-> name, latitude |-> lat, longitude |-> lon,
     photo_taken_at |-> taken, created_at |-> created]

\* All record lists of length n whose ids are 1..n: names and coordinates
\* vary, the records carry no capture timestamp and were created together.
RECURSIVE MemoryLists(_)
MemoryLists(n) ==
    IF n = 0 THEN {<<>>}
    ELSE {Append(l, Memory(n, name, lat, lon, NULL, "T1")) :
             l \in MemoryLists(n - 1), name \in GroupNames,
             lat \in GridLatitudes, lon \in GridLongitudes}

\* All record lists of length n at one place whose timestamps vary; the list
\* is in the order the server returns it, newest creation first.
RECURSIVE TimedLists(_)
TimedLists(n) ==
    IF n = 0 THEN {<<>>}
    ELSE LET longer == {Append(l, Memory(n, name, 0, 0, taken, created)) :
                           l \in TimedLists(n - 1), name \in TimedNames,
                           taken \in CaptureTimes, created \in CreationTimes}
         IN  {l \in longer :
                 n = 1 \/ getTime(l[n].created_at) <= getTime(l[n - 1].created_at)}

VARIABLES
    foodMemories,  \* the record list that is grouped
    gi,            \* number of records the loop has gone through
    groups,        \* the groups built so far (marker order)
    listGroups     \* the groups in list-view order, <<>> until sorted

groupVars == <<foodMemories, gi, groups, listGroups>>

InitGroup ==
    /\ foodMemories \in UNION {MemoryLists(n) \cup TimedLists(n) :
                                  n \in 1..MaxMemories}
    /\ gi = 0
    /\ groups = <<>>
    /\ listGroups = <<>>

\* A variant without the special case of a missing restaurant name.
Ungrouped_Never(memory) == FALSE

\* !memory.restaurant_name
Ungrouped(memory) == Falsy(memory.restaurant_name)

\* A variant that matches names without regard to case.
existingGroup_IgnoreCase(gs, memory) ==
    LET lower(n) == IF n = "A" THEN "a" ELSE n
        hits == {i \in 1..Len(gs) :
                    /\ lower(gs[i].restaurant_name) = lower(memory.restaurant_name)
                    /\ getDistanceMeters(gs[i].latitude, gs[i].longitude,
                                         memory.latitude, memory.longitude)
                           <= Threshold}
    IN  IF hits = {} THEN 0 ELSE CHOOSE j \in hits : \A h \in hits : j <= h

\* A variant that takes the last matching group instead of the first.
existingGroup_Last(gs, memory) ==
    LET hits == {i \in 1..Len(gs) :
                    /\ gs[i].restaurant_name = memory.restaurant_name
                    /\ getDistanceMeters(gs[i].latitude, gs[i].longitude,
                                         memory.latitude, memory.longitude)
                           <= Threshold}
    IN  IF hits = {} THEN 0 ELSE CHOOSE j \in hits : \A h \in hits : j >= h

\* groups.find(...): the index of the first group of the same name whose
\* coordinate is within the threshold, 0 when there is none.
existingGroup(gs, memory) ==
    LET hits == {i \in 1..Len(gs) :
                    /\ gs[i].restaurant_name = memory.restaurant_name
                    /\ getDistanceMeters(gs[i].latitude, gs[i].longitude,
                                         memory.latitude, memory.longitude)
                           <= Threshold}
    IN  IF hits = {} THEN 0 ELSE CHOOSE j \in hits : \A h \in hits : j <= h

SingleGroup(memory) ==
    [key |-> <<"single", memory.id>>,
     restaurant_name |-> NULL,
     latitude |-> memory.latitude,
     longitude |-> memory.longitude,
     memories |-> <<memory>>]

NamedGroup(memory) ==
    [key |-> <<"group", memory.restaurant_name, memory.latitude, memory.longitude>>,
     restaurant_name |-> memory.restaurant_name,
     latitude |-> memory.latitude,
     longitude |-> memory.longitude,
     memories |-> <<memory>>]

\* A variant that puts the record in front of the members of its group.
addToGroups_Unshift(gs, memory) ==
    IF Ungrouped(memory) THEN Append(gs, SingleGroup(memory))
    ELSE LET g == existingGroup(gs, memory)
         IN  IF g # 0
             THEN [gs EXCEPT ![g].memories = <<memory>> \o @]
             ELSE Append(gs, NamedGroup(memory))

\* One turn of the loop of dishGroups.
addToGroups(gs, memory) ==
    IF Ungrouped(memory) THEN Append(gs, SingleGroup(memory))
    ELSE LET g == existingGroup(gs, memory)
         IN  IF g # 0
             THEN [gs EXCEPT ![g].memories = Append(@, memory)]
             ELSE Append(gs, NamedGroup(memory))

DishGroupsTurn ==
    /\ gi < Len(foodMemories)
    /\ groups' = addToGroups(groups, foodMemories[gi + 1])
    /\ gi' = gi + 1
    /\ UNCHANGED <<foodMemories, listGroups>>

\* new Date(m.photo_taken_at || m.created_at).getTime()
memoryDate(m) ==
    getTime(IF Falsy(m.photo_taken_at) THEN m.created_at ELSE m.photo_taken_at)

\* Math.max(...group.memories.map(...))
groupDate(group) ==
    LET dates == {memoryDate(group.memories[k]) : k \in 1..Len(group.memories)}
    IN  CHOOSE d \in dates : \A e \in dates : e <= d

\* A variant of the comparator that orders by the oldest member.
before_Oldest(a, b) ==
    LET dates(g) == {memoryDate(g.memories[k]) : k \in 1..Len(g.memories)}
        oldest(g) == CHOOSE d \in dates(g) : \A e \in dates(g) : d <= e
    IN  oldest(b) - oldest(a) < 0

\* The comparator (a, b) => bDate - aDate is negative: a goes before b.
before(a, b) == groupDate(b) - groupDate(a) < 0

\* Array.prototype.sort is stable: a group is put behind every group that
\* does not go after it.
RECURSIVE sortInto(_, _, _)
sortInto(sorted, gs, i) ==
    IF i > Len(gs) THEN sorted
    ELSE LET g == gs[i]
             p == Cardinality({j \in 1..Len(sorted) : ~before(g, sorted[j])})
         IN  sortInto(SubSeq(sorted, 1, p) \o <<g>>
                          \o SubSeq(sorted, p + 1, Len(sorted)),
                      gs, i + 1)

\* [...dishGroups].sort(...)
sortedDishGroups(dishGroups) == sortInto(<<>>, dishGroups, 1)

\* The list view is derived once the groups are built; the sort works on a
\* copy.
SortedDishGroupsTurn ==
    /\ gi = Len(foodMemories)
    /\ listGroups = <<>>
    /\ listGroups' = sortedDishGroups(groups)
    /\ UNCHANGED <<foodMemories, gi, groups>>

(***************************************************************************)
(* The record table and PATCH /memories/{id}                               *)
(***************************************************************************)

\* Number of rows the table can hold.
MaxRows == 2

\* A JSON field that the payload does not carry.
UNDEFINED == "<undefined>"

\* friend_tags values: absent from the payload, null, or an array.
UndefinedTags == [kind |-> "undefined", items |-> <<>>]
NullTags == [kind |-> "null", items |-> <<>>]
TagArray(items) == [kind |-> "array", items |-> items]

\* value ?? null
Nullish(v) == IF v = UNDEFINED THEN NULL ELSE v
NullishTags(v) == IF v.kind = "undefined" THEN NullTags ELSE v

\* A row of food_memories, as far as the routes read and write it.
Row(id, dish, restaurant, url) ==
    [id |-> id, dish_name |-> dish, restaurant_name |-> restaurant,
     google_maps_url |-> url, friend_tags |-> NullTags, personal_note |-> NULL,
     neighborhood |-> NULL, borough |-> NULL]

\* The rows the upload route's INSERT creates: the dish and the restaurant
\* come from the identification, the link from the matching candidate;
\* tags, note and location labels take the column default.
UploadedRows(id) ==
    { Row(id, "Pho", NULL, NullUrl),
      Row(id, NULL, "A", MapsUrl("A", "p1")) }

\* The JSON payload of a PATCH.
Body(tags, note, dish, restaurant) ==
    [friend_tags |-> tags, personal_note |-> note, dish_name |-> dish,
     restaurant_name |-> restaurant]

NoBody == Body(UndefinedTags, UNDEFINED, UNDEFINED, UNDEFINED)

\* Payloads: with none of tags, note and dish, with the dish alone (as the
\* upload confirmation sends it) or with all three (as an edit sends them),
\* each without a restaurant name, with a null one, or with a name; and a
\* payload of tags alone as any caller of the route may send it.
Bodies ==
    {Body(f[1], f[2], f[3], restaurant) :
        f \in {<<UndefinedTags, UNDEFINED, UNDEFINED>>,
               <<UndefinedTags, UNDEFINED, "Ramen">>,
               <<TagArray(<<"Sam">>), "note", "Ramen">>},
        restaurant \in {UNDEFINED, NULL, "A", "B"}}
    \cup {Body(TagArray(<<"Sam", "Sam">>), UNDEFINED, UNDEFINED, UNDEFINED)}

\* The id segment of the URL, as a sequence of characters.
IdParams == {<<"1">>, <<"2">>, <<"x">>}

\* parseInt(id, 10): an optional sign and the longest digit prefix, NaN when
\* there is none.
parseInt(s) ==
    LET neg == s # <<>> /\ s[1] = "-"
        body == IF neg THEN Tail(s) ELSE s
        n == DigitPrefixLen(body)
    IN  IF n = 0 THEN NaN
        ELSE Num((IF neg THEN -1 ELSE 1) * DigitsValue(SubSeq(body, 1, n)))

\* What the text search answers to a query: the first result's name and
\* place id.  A result may come without a name.
TextSearch(query) ==
    IF query = "A" THEN <<[name |-> "A Diner", place_id |-> "p1"]>>
    ELSE IF query = "B" THEN <<[name |-> "", place_id |-> "p2"]>>
    ELSE <<>>

\* How a lookup can end: no GOOGLE_PLACES_API_KEY (no call is made), the
\* fetch or the JSON parse throws, the answer has no results, or it has.
LookupOutcomes == {"nokey", "throw", "noresults", "results"}

\* A variant that builds a link whatever the lookup gave.
lookupGoogleMapsUrl_Always(restaurantName, out) ==
    MapsUrl(restaurantName, "p1")

\* lookupGoogleMapsUrl: the link of the first result, null otherwise.
lookupGoogleMapsUrl(restaurantName, out) ==
    LET results == IF out = "results" THEN TextSearch(restaurantName) ELSE <<>>
    IN  IF out \in {"nokey", "throw"} THEN NullUrl
        ELSE IF Len(results) > 0
        THEN LET place == results[1]
             IN  MapsUrl(IF Falsy(place.name) THEN restaurantName ELSE place.name,
                         place.place_id)
        ELSE NullUrl

\* The requests that can be under way at the same time.
Requests == {"r1", "r2"}

VARIABLES
    food_memories,  \* the table: row i has id i
    patchPc,        \* per request: "idle", "lookup", "update" or "done"
    patchId,        \* per request: memoryId
    patchBody,      \* per request: the payload
    patchUrl,       \* per request: googleMapsUrl
    lookupOut,      \* per request: how its lookup ended, "none" before
    patchStatus     \* per request: status of the response, 0 before

requestVars == <<patchPc, patchId, patchBody, patchUrl, lookupOut, patchStatus>>

patchVars == <<food_memories, requestVars>>

InitPatch ==
    /\ food_memories = <<>>
    /\ patchPc = [r \in Requests |-> "idle"]
    /\ patchId = [r \in Requests |-> 0]
    /\ patchBody = [r \in Requests |-> NoBody]
    /\ patchUrl = [r \in Requests |-> NullUrl]
    /\ lookupOut = [r \in Requests |-> "none"]
    /\ patchStatus = [r \in Requests |-> 0]

\* The upload route's INSERT, seen from the table.
UploadInsert ==
    /\ Len(food_memories) < MaxRows
    /\ \E row \in UploadedRows(Len(food_memories) + 1) :
           food_memories' = Append(food_memories, row)
    /\ UNCHANGED <<patchPc, patchId, patchBody, patchUrl, lookupOut,
                   patchStatus>>

\* A variant in which every id matches.
Found_Any(id) == TRUE

\* WHERE id = ${memoryId} matches a row.
Found(id) == id \in 1..Len(food_memories)

\* The response is sent.
Respond(r, status) ==
    /\ patchPc' = [patchPc EXCEPT ![r] = "done"]
    /\ patchStatus' = [patchStatus EXCEPT ![r] = status]

\* The SET clause of the default path.
SetDefault(row, body) ==
    [row EXCEPT
        !.friend_tags = NullishTags(body.friend_tags),
        !.personal_note = Nullish(body.personal_note),
        !.dish_name = Nullish(body.dish_name)]

\* A variant of the restaurant path's SET clause that leaves the link alone.
SetRestaurant_KeepLink(row, body, googleMapsUrl) ==
    [SetDefault(row, body) EXCEPT
        !.restaurant_name = IF Falsy(body.restaurant_name)
                            THEN NULL ELSE body.restaurant_name]

\* The SET clause of the restaurant path.
SetRestaurant(row, body, googleMapsUrl) ==
    [SetDefault(row, body) EXCEPT
        !.restaurant_name = IF Falsy(body.restaurant_name)
                            THEN NULL ELSE body.restaurant_name,
        !.google_maps_url = googleMapsUrl]

\* PATCH up to its first statement's result.  Without a user the answer is
\* 401, with an id that is no number 400.  A payload with restaurant_name
\* reads the row's coordinates (404 when there is none) and goes on to the
\* lookup, or straight to the update when the name is falsy; a payload
\* without it runs the default update at once.  A statement that throws is
\* answered 500.
PATCH_Start(r, userId, id, body) ==
    /\ patchPc[r] = "idle"
    /\ LET memoryId == parseInt(id)
       IN  IF ~userId THEN
               /\ Respond(r, 401)
               /\ UNCHANGED <<food_memories, patchId, patchBody>>
           ELSE IF isNaN(memoryId) THEN
               /\ Respond(r, 400)
               /\ UNCHANGED <<food_memories, patchId, patchBody>>
           ELSE
               /\ patchId' = [patchId EXCEPT ![r] = memoryId.v]
               /\ patchBody' = [patchBody EXCEPT ![r] = body]
               /\ \E dbOk \in BOOLEAN :
                   IF ~dbOk THEN
                       Respond(r, 500) /\ UNCHANGED food_memories
                   ELSE IF ~Found(memoryId.v) THEN
                       Respond(r, 404) /\ UNCHANGED food_memories
                   ELSE IF body.restaurant_name # UNDEFINED THEN
                       /\ patchPc' = [patchPc EXCEPT ![r] =
                              IF Falsy(body.restaurant_name) THEN "update"
                              ELSE "lookup"]
                       /\ UNCHANGED <<food_memories, patchStatus>>
                   ELSE
                       /\ food_memories' = [food_memories EXCEPT ![memoryId.v] =
                                                SetDefault(@, body)]
                       /\ Respond(r, 200)
    /\ UNCHANGED <<patchUrl, lookupOut>>

\* The lookup returns.
PATCH_Lookup(r) ==
    /\ patchPc[r] = "lookup"
    /\ \E out \in LookupOutcomes :
        /\ patchUrl' = [patchUrl EXCEPT ![r] =
               lookupGoogleMapsUrl(patchBody[r].restaurant_name, out)]
        /\ lookupOut' = [lookupOut EXCEPT ![r] = out]
    /\ patchPc' = [patchPc EXCEPT ![r] = "update"]
    /\ UNCHANGED <<food_memories, patchId, patchBody, patchStatus>>

\* The UPDATE of the restaurant path and the response.
PATCH_Update(r) ==
    /\ patchPc[r] = "update"
    /\ \E dbOk \in BOOLEAN :
        IF ~dbOk THEN
            /\ Respond(r, 500)
            /\ UNCHANGED food_memories
        ELSE IF ~Found(patchId[r]) THEN
            /\ Respond(r, 404)
            /\ UNCHANGED food_memories
        ELSE
            /\ food_memories' = [food_memories EXCEPT ![patchId[r]] =
                   SetRestaurant(@, patchBody[r], patchUrl[r])]
            /\ Respond(r, 200)
    /\ UNCHANGED <<patchId, patchBody, patchUrl, lookupOut>>

(***************************************************************************)
(* The location backfill jobs                                              *)
(***************************************************************************)

\* NEIGHBORHOOD_OVERRIDES, as a list of <<old name, new name>>.
NEIGHBORHOOD_OVERRIDES ==
    << <<"Central Park West Historic District", "Upper West Side">>,
       <<"Flatiron District", "Flatiron">> >>

\* NEIGHBORHOOD_OVERRIDES[name] ?? name
normalizeNeighborhood(name) ==
    LET hits == {k \in 1..Len(NEIGHBORHOOD_OVERRIDES) :
                    NEIGHBORHOOD_OVERRIDES[k][1] = name}
    IN  IF hits = {} THEN name
        ELSE NEIGHBORHOOD_OVERRIDES[CHOOSE k \in hits : TRUE][2]

\* The two jobs: backfill-locations fills neighborhood and borough,
\* backfill-neighborhoods the neighborhood alone.
Jobs == {"locations", "neighborhoods"}

\* What the geocoding call can end as: no API key, a thrown fetch, a
\* non-success status, no results, or the labels of the first result.
GeocodeOutcomes ==
    {[kind |-> k, neighborhood |-> NULL, borough |-> NULL] :
        k \in {"nokey", "throw", "nonok", "noresults"}}
    \cup {[kind |-> "ok", neighborhood |-> n, borough |-> b] :
             n \in {NULL, "Nolita", "Flatiron District"},
             b \in {NULL, "Brooklyn"}}

\* reverseGeocodeNeighborhood: the labels of the first result, nulls
\* otherwise; the neighborhoods job reads the neighborhood only.
reverseGeocodeNeighborhood(job, out) ==
    IF out.kind # "ok" THEN [neighborhood |-> NULL, borough |-> NULL]
    ELSE [neighborhood |-> out.neighborhood,
          borough |-> IF job = "locations" THEN out.borough ELSE NULL]

\* COALESCE(a, b): the first argument that is not null.
COALESCE(a, b) == IF a # NULL THEN a ELSE b

\* Labels the rows may carry from earlier runs (of these jobs and of the
\* neighborhoods job before it had overrides).
StoredNeighborhoods == {NULL, "SoHo", "Flatiron District"}
StoredBoroughs == {NULL, "Manhattan"}

\* All tables of n rows with such labels.
RECURSIVE LabelledTables(_)
LabelledTables(n) ==
    IF n = 0 THEN {<<>>}
    ELSE {Append(t, [Row(n, "Pho", NULL, NullUrl) EXCEPT
                         !.neighborhood = nb, !.borough = b]) :
             t \in LabelledTables(n - 1), nb \in StoredNeighborhoods,
             b \in StoredBoroughs}

VARIABLES
    bfPc,      \* "idle", "rename", "select", "rows" or "done"
    bfJob,     \* the job that runs
    bfK,       \* overrides applied so far
    bfRows,    \* ids of the selected rows still to do
    bfStatus   \* status of the response, 0 before

backfillVars == <<bfPc, bfJob, bfK, bfRows, bfStatus>>


InitBackfill ==
    /\ bfPc = "idle"
    /\ bfJob = "locations"
    /\ bfK = 0
    /\ bfRows = <<>>
    /\ bfStatus = 0

BackfillRespond(status) ==
    /\ bfPc' = "done"
    /\ bfStatus' = status

\* POST up to the first statement: 401 without a user.
Backfill_Start(job, userId) ==
    /\ bfPc = "idle"
    /\ bfJob' = job
    /\ IF userId THEN bfPc' = "rename" /\ UNCHANGED bfStatus
       ELSE BackfillRespond(401)
    /\ UNCHANGED <<food_memories, bfK, bfRows>>

\* UPDATE ... SET neighborhood = newName WHERE neighborhood = oldName
Rename(table, oldName, newName) ==
    [i \in 1..Len(table) |->
        IF table[i].neighborhood = oldName
        THEN [table[i] EXCEPT !.neighborhood = newName]
        ELSE table[i]]

\* One turn of the loop over the overrides.
Backfill_Rename ==
    /\ bfPc = "rename"
    /\ \E dbOk \in BOOLEAN :
        IF dbOk
        THEN /\ food_memories' = Rename(food_memories,
                                        NEIGHBORHOOD_OVERRIDES[bfK + 1][1],
                                        NEIGHBORHOOD_OVERRIDES[bfK + 1][2])
             /\ bfK' = bfK + 1
             /\ bfPc' = IF bfK + 1 = Len(NEIGHBORHOOD_OVERRIDES)
                        THEN "select" ELSE "rename"
             /\ UNCHANGED bfStatus
        ELSE BackfillRespond(500) /\ UNCHANGED <<food_memories, bfK>>
    /\ UNCHANGED <<bfJob, bfRows>>

\* WHERE neighborhood IS NULL (OR borough IS NULL)
Selected(job, row) ==
    \/ row.neighborhood = NULL
    \/ job = "locations" /\ row.borough = NULL

\* The ids of the rows of the table that satisfy the WHERE clause, in order.
RECURSIVE SelectIds(_, _, _)
SelectIds(table, job, i) ==
    IF i > Len(table) THEN <<>>
    ELSE (IF Selected(job, table[i]) THEN <<i>> ELSE <<>>)
             \o SelectIds(table, job, i + 1)

\* The SELECT of the rows to fill.
Backfill_Select ==
    /\ bfPc = "select"
    /\ \E dbOk \in BOOLEAN :
        IF dbOk
        THEN /\ bfRows' = SelectIds(food_memories, bfJob, 1)
             /\ bfPc' = "rows"
             /\ UNCHANGED bfStatus
        ELSE BackfillRespond(500) /\ UNCHANGED bfRows
    /\ UNCHANGED <<food_memories, bfJob, bfK>>

\* The SET clause of the row's UPDATE, given the labels found.
SetLabels(job, row, neighborhood, borough) ==
    IF job = "locations"
    THEN [row EXCEPT !.neighborhood = COALESCE(neighborhood, @),
                     !.borough = COALESCE(borough, @)]
    ELSE [row EXCEPT !.neighborhood = neighborhood]

\* One turn of the loop over the selected rows: the labels are looked up,
\* normalised and written if there is any; after the last row the
\* response is sent.
Backfill_Row ==
    /\ bfPc = "rows"
    /\ IF bfRows = <<>>
       THEN BackfillRespond(200) /\ UNCHANGED <<food_memories, bfRows>>
       ELSE \E out \in GeocodeOutcomes, dbOk \in BOOLEAN :
           LET result == reverseGeocodeNeighborhood(bfJob, out)
               neighborhood == IF Falsy(result.neighborhood) THEN NULL
                               ELSE normalizeNeighborhood(result.neighborhood)
               borough == result.borough
               id == Head(bfRows)
           IN  IF Falsy(neighborhood) /\ Falsy(borough)
               THEN /\ bfRows' = Tail(bfRows)
                    /\ UNCHANGED <<food_memories, bfPc, bfStatus>>
               ELSE IF dbOk
               THEN /\ food_memories' = [food_memories EXCEPT ![id] =
                           SetLabels(bfJob, @, neighborhood, borough)]
                    /\ bfRows' = Tail(bfRows)
                    /\ UNCHANGED <<bfPc, bfStatus>>
               ELSE BackfillRespond(500) /\ UNCHANGED <<food_memories, bfRows>>
    /\ UNCHANGED <<bfJob, bfK>>

(***************************************************************************)
(* Tag editing in the client                                               *)
(***************************************************************************)

\* Number of PATCH requests the client sends.
MaxEdits == 2

\* What the user types into the tag field before pressing Enter.
TagInputs == {"", "Sam", " Sam", "Ann"}

\* tagInput.trim()
trim(text) == IF text = " Sam" THEN "Sam" ELSE text

\* No record is selected.
NoMemory == Row(0, NULL, NULL, NullUrl)

\* selectedMemory.friend_tags || []
tagsOrEmpty(tags) == IF tags.kind = "array" THEN tags.items ELSE <<>>

\* trimmed && !editedTags.includes(trimmed)
canAddTag(editedTags, trimmed) ==
    /\ trimmed # ""
    /\ \A k \in 1..Len(editedTags) : editedTags[k] # trimmed

\* editedTags.filter(t => t !== tagToRemove)
RECURSIVE withoutTag(_, _)
withoutTag(tags, tagToRemove) ==
    IF tags = <<>> THEN <<>>
    ELSE (IF tags[1] = tagToRemove THEN <<>> ELSE <<tags[1]>>)
             \o withoutTag(Tail(tags), tagToRemove)

VARIABLES
    selectedMemory,  \* the record whose sheet is open, NoMemory if none
    editedTags,      \* the tag edit buffer
    editedNote,      \* the note edit buffer
    requests         \* the PATCH requests sent, in the order of sending

clientVars == <<selectedMemory, editedTags, editedNote, requests>>

InitClient ==
    /\ selectedMemory = NoMemory
    /\ editedTags = <<>>
    /\ editedNote = ""
    /\ requests = <<>>

\* A record of the list is tapped: it becomes the selected one and the
\* effect seeds the edit buffers from it.
SelectMemory ==
    /\ selectedMemory = NoMemory
    /\ \E k \in 1..Len(foodMemories) :
        /\ selectedMemory' = foodMemories[k]
        /\ editedTags' = tagsOrEmpty(foodMemories[k].friend_tags)
        /\ editedNote' = IF Falsy(foodMemories[k].personal_note) THEN ""
                         ELSE foodMemories[k].personal_note
    /\ UNCHANGED <<foodMemories, food_memories, requests>>

\* The map is tapped: the sheet closes and the effect clears the buffers.
CloseSheet ==
    /\ selectedMemory # NoMemory
    /\ selectedMemory' = NoMemory
    /\ editedTags' = <<>>
    /\ editedNote' = ""
    /\ UNCHANGED <<foodMemories, food_memories, requests>>

\* The payload saveMemoryChanges(tags, note) builds.
payload(tags, note) ==
    Body(IF Len(tags) > 0 THEN TagArray(tags) ELSE NullTags,
         IF note = "" THEN NULL ELSE note,
         selectedMemory.dish_name,
         UNDEFINED)

\* saveMemoryChanges(tags, note) up to the fetch: nothing without a selected
\* record, else the PATCH is on its way.
saveMemoryChanges(tags, note) ==
    IF selectedMemory = NoMemory THEN UNCHANGED requests
    ELSE requests' = Append(requests,
                            [id |-> selectedMemory.id, body |-> payload(tags, note),
                             state |-> "sent", updated |-> NoMemory,
                             handled |-> FALSE])

\* Enter in the tag field.
handleAddTag(tagInput) ==
    /\ selectedMemory # NoMemory
    /\ Len(requests) < MaxEdits
    /\ LET trimmed == trim(tagInput)
       IN  IF canAddTag(editedTags, trimmed)
           THEN LET newTags == Append(editedTags, trimmed)
                IN  /\ editedTags' = newTags
                    /\ saveMemoryChanges(newTags, editedNote)
           ELSE UNCHANGED <<editedTags, requests>>
    /\ UNCHANGED <<selectedMemory, editedNote, foodMemories, food_memories>>

\* The cross of a tag is tapped.
handleRemoveTag(tagToRemove) ==
    /\ selectedMemory # NoMemory
    /\ Len(requests) < MaxEdits
    /\ \E k \in 1..Len(editedTags) : editedTags[k] = tagToRemove
    /\ LET newTags == withoutTag(editedTags, tagToRemove)
       IN  /\ editedTags' = newTags
           /\ saveMemoryChanges(newTags, editedNote)
    /\ UNCHANGED <<selectedMemory, editedNote, foodMemories, food_memories>>

\* The server handles one of the requests on their way, whichever arrives
\* first: the payloads carry no restaurant name, so this is the default
\* path of PATCH.  The answer is the updated row, 404 or 500.
PATCH_Default(n) ==
    /\ requests[n].state = "sent"
    /\ \E dbOk \in BOOLEAN :
        IF dbOk /\ Found(requests[n].id)
        THEN LET updated == SetDefault(food_memories[requests[n].id],
                                       requests[n].body)
             IN  /\ food_memories' = [food_memories EXCEPT
                                         ![requests[n].id] = updated]
                 /\ requests' = [requests EXCEPT ![n].state = "ok",
                                                 ![n].updated = updated]
        ELSE /\ requests' = [requests EXCEPT ![n].state = "failed"]
             /\ UNCHANGED food_memories
    /\ UNCHANGED <<selectedMemory, editedTags, editedNote, foodMemories>>

\* saveMemoryChanges after the fetch: an ok answer replaces the record in
\* the list and becomes the selected record, and when that changes the id of
\* the selected record the effect seeds the edit buffers again; any other
\* answer is dropped.
saveMemoryChanges_Response(n) ==
    /\ requests[n].state \in {"ok", "failed"}
    /\ ~requests[n].handled
    /\ requests' = [requests EXCEPT ![n].handled = TRUE]
    /\ IF requests[n].state = "ok"
       THEN LET updated == requests[n].updated
            IN  /\ foodMemories' = [k \in 1..Len(foodMemories) |->
                                       IF foodMemories[k].id = updated.id
                                       THEN updated
                                       ELSE foodMemories[k]]
                /\ selectedMemory' = updated
                /\ IF updated.id # selectedMemory.id
                   THEN /\ editedTags' = tagsOrEmpty(updated.friend_tags)
                        /\ editedNote' = IF Falsy(updated.personal_note) THEN ""
                                         ELSE updated.personal_note
                   ELSE UNCHANGED <<editedTags, editedNote>>
       ELSE UNCHANGED <<foodMemories, selectedMemory, editedTags, editedNote>>
    /\ UNCHANGED food_memories

(***************************************************************************)
(* Markers, selection and the map in the client                            *)
(***************************************************************************)

\* A row with the coordinates GET /memories and PATCH return with it.
Located(row, lat, lon) ==
    [id |-> row.id, dish_name |-> row.dish_name,
     restaurant_name |-> row.restaurant_name,
     google_maps_url |-> row.google_maps_url, friend_tags |-> row.friend_tags,
     personal_note |-> row.personal_note, neighborhood |-> row.neighborhood,
     borough |-> row.borough, latitude |-> lat, longitude |-> lon]

\* value || ''
orEmpty(value) == IF Falsy(value) THEN "" ELSE value

\* value || null
orNull(value) == IF Falsy(value) THEN NULL ELSE value

\* dishGroups: the loop over the whole list.
RECURSIVE groupsOf(_)
groupsOf(list) ==
    IF list = <<>> THEN <<>>
    ELSE addToGroups(groupsOf(SubSeq(list, 1, Len(list) - 1)), list[Len(list)])

\* The keys of the markers React keeps mounted for a list of groups.
Keys(gs) == {gs[g].key : g \in 1..Len(gs)}

\* The group a marker of that key is rendered with.
GroupOfKey(gs, key) == gs[CHOOSE g \in 1..Len(gs) : gs[g].key = key]

\* memories.some(m => m.id === selectedMemoryId)
isSelected(group, selectedMemoryId) ==
    \E j \in 1..Len(group.memories) : group.memories[j].id = selectedMemoryId

\* The dependencies of the marker's effects at a render.
Deps(index, selected) == [index |-> index, selected |-> selected]

\* A marker that has just been mounted: useState(0), no effect has run.
NewMarker == [currentIndex |-> 0, deps |-> Deps(-1, FALSE)]

\* The horizontal distances of a touch, touchStartX - touchEndX, in px.
SwipeDiffs == {-60, -50, 0, 50, 60}

\* handleTouchEnd: the index after a touch that moved by diff.
swipeTo(currentIndex, length, diff) ==
    IF diff > 50 \/ diff < -50
    THEN IF diff > 0 /\ currentIndex < length - 1 THEN currentIndex + 1
         ELSE IF diff < 0 /\ currentIndex > 0 THEN currentIndex - 1
         ELSE currentIndex
    ELSE currentIndex

VARIABLES
    markers,           \* per mounted marker (by key): currentIndex and the
                       \* dependencies its effects last ran with
    markerClickedRef,  \* markerClickedRef.current
    mapCenter,         \* <<latitude, longitude>>, <<>> before the first
    fullscreenData,    \* the images and the initial index of the viewer
    viewerIndex        \* currentIndex of the mounted FullscreenViewer

viewerVars == <<fullscreenData, viewerIndex>>

viewVars == <<markers, markerClickedRef, mapCenter, viewerVars>>

\* fullscreenData is null: no viewer is mounted.
NoFullscreen == [images |-> <<>>, initialIndex |-> 0]

InitView ==
    /\ markers = [key \in {} |-> NewMarker]
    /\ markerClickedRef = FALSE
    /\ mapCenter = <<>>
    /\ fullscreenData = NoFullscreen
    /\ viewerIndex = 0

\* The markers when the groups have become gs: a marker keeps its state as
\* long as its key stays, a new key is mounted afresh.
Reconcile(ms, gs) ==
    [key \in Keys(gs) |-> IF key \in DOMAIN ms THEN ms[key] ELSE NewMarker]

\* The render of the markers succeeds: each finds memories[currentIndex].
RenderedIn(ms, gs) ==
    \A key \in DOMAIN ms :
        ms[key].currentIndex < Len(GroupOfKey(gs, key).memories)

\* groups holds dishGroups, which useMemo computes anew when the list changes.
Rendered == RenderedIn(markers, groups)

\* What a render and its effects work on: the markers, the selected record
\* and the flag.
View(ms, memory, flag) == [markers |-> ms, selected |-> memory, flag |-> flag]

\* The effects of the markers after one render, in the order of the markers:
\* where isSelected has changed and the group is not selected, the index is
\* reset; where isSelected or the index has changed and the group is
\* selected, onSelectMemory(currentMemory) is called.  The state they set
\* takes effect with the next render.
EffectRound(v, gs) ==
    LET sel(g) == isSelected(gs[g], v.selected.id)
        index(g) == v.markers[gs[g].key].currentIndex
        last(g) == v.markers[gs[g].key].deps
        runs(g) == last(g) # Deps(index(g), sel(g))
        resets(g) ==
            (last(g).index = -1 \/ last(g).selected # sel(g)) /\ ~sel(g)
        syncing == {g \in 1..Len(gs) : runs(g) /\ sel(g)}
        caller == CHOOSE g \in syncing : \A h \in syncing : h <= g
        of(key) == CHOOSE g \in 1..Len(gs) : gs[g].key = key
    IN  View([key \in DOMAIN v.markers |->
                 IF runs(of(key))
                 THEN [currentIndex |-> IF resets(of(key)) THEN 0
                                        ELSE index(of(key)),
                       deps |-> Deps(index(of(key)), sel(of(key)))]
                 ELSE v.markers[key]],
             IF syncing = {} THEN v.selected
             ELSE gs[caller].memories[index(caller) + 1],
             v.flag \/ syncing # {})

\* Renders and effects until no effect sets any state, or until a render
\* throws.
RECURSIVE Settle(_, _, _)
Settle(v, gs, rounds) ==
    IF rounds = 0 \/ ~RenderedIn(v.markers, gs) \/ EffectRound(v, gs) = v
    THEN v
    ELSE Settle(EffectRound(v, gs), gs, rounds - 1)

\* The state after an event handler has set the markers, the selected
\* record and the flag, with the groups as they are then: the markers are
\* reconciled with the groups, the effects run, and the effect on
\* selectedMemory?.id seeds the edit buffers when the id of the selected
\* record has changed.
Commit(ms, memory, flag, gs) ==
    LET v == Settle(View(Reconcile(ms, gs), memory, flag), gs, Len(gs) + 2)
    IN  /\ markers' = v.markers
        /\ markerClickedRef' = v.flag
        /\ selectedMemory' = v.selected
        /\ IF v.selected.id = selectedMemory.id
           THEN UNCHANGED <<editedTags, editedNote>>
           ELSE IF v.selected.id = 0
           THEN editedTags' = <<>> /\ editedNote' = ""
           ELSE /\ editedTags' = tagsOrEmpty(v.selected.friend_tags)
                /\ editedNote' = orEmpty(v.selected.personal_note)

\* A row of the list view is tapped.
ListRowClick(k, isDesktop) ==
    /\ Rendered
    /\ LET memory == foodMemories[k]
       IN  IF selectedMemory.id = memory.id
           THEN /\ Commit(markers, NoMemory, markerClickedRef, groups)
                /\ UNCHANGED mapCenter
           ELSE /\ Commit(markers, memory, markerClickedRef, groups)
                /\ mapCenter' = IF isDesktop
                                THEN <<memory.latitude, memory.longitude>>
                                ELSE mapCenter
    /\ UNCHANGED <<viewerVars, foodMemories, groups>>

\* The timer of onMapClick: the flag is taken back if it is set, else the
\* selection is cleared.
onMapClick(v) ==
    IF v.flag THEN View(v.markers, v.selected, FALSE)
    ELSE View(v.markers, NoMemory, v.flag)

\* A marker is clicked: handleClick of its DOM element.  Whether the map's
\* click handler sees the click as well, and whether its timer then runs
\* before or after the effects of the click, is left open.
MarkerClick(key, bubbles, timerFirst) ==
    /\ Rendered
    /\ LET group == GroupOfKey(groups, key)
           clicked ==
               IF isSelected(group, selectedMemory.id)
               THEN View(markers, NoMemory, TRUE)
               ELSE View([markers EXCEPT ![key].currentIndex = 0],
                         group.memories[1], TRUE)
           settled == Settle(clicked, groups, Len(groups) + 2)
           v == IF ~bubbles THEN clicked
                ELSE IF timerFirst THEN onMapClick(clicked)
                ELSE onMapClick(settled)
       IN  Commit(v.markers, v.selected, v.flag, groups)
    /\ UNCHANGED <<mapCenter, viewerVars, foodMemories, groups>>

\* A touch on the open popup of a marker ends diff px from where it began.
handleTouchEnd(key, diff) ==
    /\ Rendered
    /\ LET group == GroupOfKey(groups, key)
       IN  /\ isSelected(group, selectedMemory.id)
           /\ Commit([markers EXCEPT ![key].currentIndex =
                         swipeTo(@, Len(group.memories), diff)],
                     selectedMemory, markerClickedRef, groups)
    /\ UNCHANGED <<mapCenter, viewerVars, foodMemories, groups>>

\* A dot of the open popup of a marker with several dishes is tapped.
DotClick(key, idx) ==
    /\ Rendered
    /\ LET group == GroupOfKey(groups, key)
       IN  /\ isSelected(group, selectedMemory.id)
           /\ Len(group.memories) > 1
           /\ idx < Len(group.memories)
    /\ Commit([markers EXCEPT ![key].currentIndex = idx],
              selectedMemory, markerClickedRef, groups)
    /\ UNCHANGED <<mapCenter, viewerVars, foodMemories, groups>>

\* The bare map is clicked: onMapClick starts its timer and the timer runs.
MapClick ==
    /\ Rendered
    /\ LET v == onMapClick(View(markers, selectedMemory, markerClickedRef))
       IN  Commit(v.markers, v.selected, v.flag, groups)
    /\ UNCHANGED <<mapCenter, viewerVars, foodMemories, groups>>

(***************************************************************************)
(* Uploading and confirming in the client                                  *)
(***************************************************************************)

\* Number of files the user selects and of confirmations that send a PATCH.
MaxUploads == 2
MaxConfirms == 2

\* What exifr.gps(file) gives: undefined, or a latitude and a longitude (in
\* the grid units of the grouping, so that 0 is 0 degrees).
NoGps == [found |-> FALSE, latitude |-> 0, longitude |-> 0]
Gps(lat, lon) == [found |-> TRUE, latitude |-> lat, longitude |-> lon]

\* The photos the user picks: without GPS data, taken at the place of the
\* records already there, or taken on the equator or on the prime meridian.
Photos == {NoGps, Gps(44, 44), Gps(0, 44), Gps(44, 0)}

\* !gps?.latitude || !gps?.longitude does not throw.
hasLocation(gps) ==
    /\ gps.found
    /\ gps.latitude # 0
    /\ gps.longitude # 0

\* What the user leaves in the two fields of the confirmation modal.
PendingDishNames == {"Pho"}
PendingRestaurantNames == {"A", "B"}

\* How a fetch of the client ends: answered ok, answered with an error
\* status before the statement ran, or aborted on the way back after the
\* server had done its work.
FetchEnds == {"ok", "notok", "lost"}

VARIABLES
    fetched,                \* fetchMemories has come back
    uploading,              \* the state of that name
    error,                  \* the error banner, NULL if none
    uploads,                \* the runs of handleFileSelect: pc and photo
    pendingMemory,          \* the record waiting for confirmation
    pendingDishName,        \* the modal's fields
    pendingRestaurantName,
    confirms                \* the runs of handleConfirmUpload that sent a
                            \* PATCH: the record, the payload, the answer

confirmVars ==
    <<fetched, uploading, error, uploads, pendingMemory, pendingDishName,
      pendingRestaurantName, confirms>>

vars ==
    <<uploadVars, groupVars, patchVars, backfillVars, clientVars, viewVars,
      confirmVars>>

InitConfirm ==
    /\ fetched = FALSE
    /\ uploading = FALSE
    /\ error = NULL
    /\ uploads = <<>>
    /\ pendingMemory = NoMemory
    /\ pendingDishName = ""
    /\ pendingRestaurantName = ""
    /\ confirms = <<>>

\* The list in the order GET /memories returns it, newest first.
RECURSIVE Reverse(_)
Reverse(list) ==
    IF list = <<>> THEN <<>> ELSE Append(Reverse(Tail(list)), list[1])

\* fetchMemories after its fetch: the list is replaced and the map centred
\* on the newest record; a failed fetch leaves everything as it is.
fetchMemories(ok) ==
    /\ ~fetched
    /\ Rendered
    /\ fetched' = TRUE
    /\ IF ok
       THEN LET data == Reverse(food_memories)
            IN  /\ foodMemories' = data
                /\ groups' = groupsOf(data)
                /\ Commit(markers, selectedMemory, markerClickedRef, groups')
                /\ mapCenter' = IF Len(data) > 0
                                THEN <<data[1].latitude, data[1].longitude>>
                                ELSE mapCenter
                /\ UNCHANGED viewerVars
       ELSE UNCHANGED <<foodMemories, groups, viewVars, selectedMemory,
                        editedTags, editedNote>>
    /\ UNCHANGED <<requests, food_memories, uploading, error, uploads,
                   pendingMemory, pendingDishName, pendingRestaurantName,
                   confirms>>

\* The add button is rendered while no record is selected, and the modal
\* lies over it while a record is pending.
TriggerShown == selectedMemory.id = 0 /\ pendingMemory.id = 0

\* A variant of the file input that is never disabled.
TriggerEnabled_Always == TRUE

\* disabled={uploading}
TriggerEnabled == ~uploading

\* handleFileSelect up to its first await.
handleFileSelect(photo) ==
    /\ Rendered
    /\ TriggerShown
    /\ TriggerEnabled
    /\ Len(uploads) < MaxUploads
    /\ uploading' = TRUE
    /\ error' = NULL
    /\ uploads' = Append(uploads, [pc |-> "exif", photo |-> photo])
    /\ UNCHANGED <<groups, viewVars, clientVars, foodMemories, food_memories, fetched,
                   pendingMemory, pendingDishName, pendingRestaurantName,
                   confirms>>

\* The catch and finally blocks of handleFileSelect.
handleFileSelect_Fails(u, message) ==
    /\ error' = message
    /\ uploading' = FALSE
    /\ uploads' = [uploads EXCEPT ![u].pc = "done"]
    /\ UNCHANGED <<pendingMemory, pendingDishName, pendingRestaurantName,
                   food_memories>>

\* handleFileSelect after the EXIF data has been read: a photo without a
\* location (or one exifr cannot read) ends in the error banner, any other
\* is posted to /api/upload.
handleFileSelect_Exif(u, threw) ==
    /\ uploads[u].pc = "exif"
    /\ IF threw THEN handleFileSelect_Fails(u, "Upload failed")
       ELSE IF ~hasLocation(uploads[u].photo)
       THEN handleFileSelect_Fails(u, "No location data found in this photo.")
       ELSE /\ uploads' = [uploads EXCEPT ![u].pc = "fetch"]
            /\ UNCHANGED <<error, uploading, pendingMemory, pendingDishName,
                           pendingRestaurantName, food_memories>>
    /\ UNCHANGED <<groups, viewVars, clientVars, foodMemories, fetched, confirms>>

\* The upload is answered.  An ok answer carries the row the route has
\* inserted, which becomes the pending record and fills the modal's fields.
handleFileSelect_Response(u, end) ==
    /\ uploads[u].pc = "fetch"
    /\ IF end = "notok" THEN handleFileSelect_Fails(u, "Upload failed")
       ELSE \E row \in UploadedRows(Len(food_memories) + 1) :
               LET newMemory == Located(row, uploads[u].photo.latitude,
                                        uploads[u].photo.longitude)
               IN  /\ food_memories' = Append(food_memories, newMemory)
                   /\ IF end = "lost"
                      THEN /\ error' = "Upload failed"
                           /\ UNCHANGED <<pendingMemory, pendingDishName,
                                          pendingRestaurantName>>
                      ELSE /\ pendingMemory' = newMemory
                           /\ pendingDishName' = orEmpty(newMemory.dish_name)
                           /\ pendingRestaurantName' =
                                  orEmpty(newMemory.restaurant_name)
                           /\ UNCHANGED error
                   /\ uploading' = FALSE
                   /\ uploads' = [uploads EXCEPT ![u].pc = "done"]
    /\ UNCHANGED <<groups, viewVars, clientVars, foodMemories, fetched, confirms>>

\* The user types into the dish field of the modal.
setPendingDishName(value) ==
    /\ pendingMemory.id # 0
    /\ Rendered
    /\ pendingDishName' = value
    /\ UNCHANGED <<groups, viewVars, clientVars, foodMemories, food_memories, fetched,
                   uploading, error, uploads, pendingMemory,
                   pendingRestaurantName, confirms>>

\* The user types into the restaurant field or picks a nearby restaurant.
setPendingRestaurantName(value) ==
    /\ pendingMemory.id # 0
    /\ Rendered
    /\ pendingRestaurantName' = value
    /\ UNCHANGED <<groups, viewVars, clientVars, foodMemories, food_memories, fetched,
                   uploading, error, uploads, pendingMemory, pendingDishName,
                   confirms>>

dishChanged == pendingDishName # orEmpty(pendingMemory.dish_name)
restaurantChanged ==
    pendingRestaurantName # orEmpty(pendingMemory.restaurant_name)

\* dishChanged || restaurantChanged
sendsPatch == dishChanged \/ restaurantChanged

\* The end of handleConfirmUpload: the record is put in front of the list,
\* the map is centred on it, it becomes the selected record and nothing is
\* pending any more.
merge(finalMemory) ==
    /\ foodMemories' = <<finalMemory>> \o foodMemories
    /\ mapCenter' = <<finalMemory.latitude, finalMemory.longitude>>
    /\ groups' = groupsOf(<<finalMemory>> \o foodMemories)
    /\ Commit(markers, finalMemory, markerClickedRef, groups')
    /\ pendingMemory' = NoMemory
    /\ UNCHANGED viewerVars

\* Confirm is pressed: handleConfirmUpload up to its await, or to its end
\* when no name has changed.
handleConfirmUpload ==
    /\ pendingMemory.id # 0
    /\ Rendered
    /\ IF sendsPatch
       THEN /\ Len(confirms) < MaxConfirms
            /\ confirms' = Append(confirms,
                   [pendingMemory |-> pendingMemory,
                    body |-> Body(UndefinedTags, UNDEFINED,
                                  orNull(pendingDishName),
                                  IF restaurantChanged
                                  THEN orNull(pendingRestaurantName)
                                  ELSE UNDEFINED),
                    state |-> "sent",
                    finalMemory |-> pendingMemory])
            /\ UNCHANGED <<foodMemories, groups, viewVars, selectedMemory,
                           editedTags, editedNote, pendingMemory>>
       ELSE /\ merge(pendingMemory)
            /\ UNCHANGED confirms
    /\ UNCHANGED <<requests, food_memories, fetched, uploading, error, uploads,
                   pendingDishName, pendingRestaurantName>>

\* The server handles the PATCH of a confirmation: the restaurant path when
\* the payload names a restaurant, the default path otherwise.
PATCH_Confirm(c, end, out) ==
    /\ confirms[c].state = "sent"
    /\ LET id == confirms[c].pendingMemory.id
           body == confirms[c].body
           updated ==
               IF body.restaurant_name = UNDEFINED
               THEN SetDefault(food_memories[id], body)
               ELSE SetRestaurant(food_memories[id], body,
                        IF Falsy(body.restaurant_name) THEN NullUrl
                        ELSE lookupGoogleMapsUrl(body.restaurant_name, out))
       IN  /\ food_memories' = IF end = "notok" THEN food_memories
                               ELSE [food_memories EXCEPT ![id] = updated]
           /\ confirms' = [confirms EXCEPT
                  ![c].state = IF end = "ok" THEN "ok" ELSE "failed",
                  ![c].finalMemory = IF end = "ok" THEN updated ELSE @]
    /\ UNCHANGED <<groups, viewVars, clientVars, foodMemories, fetched, uploading,
                   error, uploads, pendingMemory, pendingDishName,
                   pendingRestaurantName>>

\* handleConfirmUpload after its await.
handleConfirmUpload_Resumes(c) ==
    /\ confirms[c].state \in {"ok", "failed"}
    /\ Rendered
    /\ confirms' = [confirms EXCEPT ![c].state = "merged"]
    /\ merge(confirms[c].finalMemory)
    /\ UNCHANGED <<requests, food_memories, fetched, uploading, error, uploads,
                   pendingDishName, pendingRestaurantName>>

\* The server handles a PATCH of another session of the user that names
\* the restaurant of a record (the restaurant path, its lookup with a result).
PATCH_Elsewhere(id, name) ==
    /\ food_memories[id].restaurant_name = "A"
    /\ food_memories' = [food_memories EXCEPT ![id] =
           SetRestaurant(@, Body(UndefinedTags, UNDEFINED, @.dish_name, name),
                         lookupGoogleMapsUrl(name, "results"))]
    /\ UNCHANGED <<foodMemories, groups, viewVars, clientVars, confirmVars>>

\* Number of saves the client sends from the sheet.
MaxSaves == 1

\* A tag is added to the selected record from its sheet.
SheetAddTag(tagInput) ==
    /\ Rendered
    /\ pendingMemory.id = 0
    /\ Len(requests) < MaxSaves
    /\ handleAddTag(tagInput)
    /\ UNCHANGED <<groups, viewVars, confirmVars>>

\* The server handles a save.
SheetPatch(n) ==
    /\ PATCH_Default(n)
    /\ UNCHANGED <<groups, viewVars, confirmVars>>

\* saveMemoryChanges after the fetch, with the markers: an ok answer
\* replaces the record in the list and becomes the selected record.
SheetSaved(n) ==
    /\ Rendered
    /\ requests[n].state \in {"ok", "failed"}
    /\ ~requests[n].handled
    /\ requests' = [requests EXCEPT ![n].handled = TRUE]
    /\ IF requests[n].state = "ok"
       THEN LET updated == requests[n].updated
                list == [k \in 1..Len(foodMemories) |->
                            IF foodMemories[k].id = updated.id
                            THEN updated ELSE foodMemories[k]]
            IN  /\ foodMemories' = list
                /\ groups' = groupsOf(list)
                /\ Commit(markers, updated, markerClickedRef, groups')
       ELSE UNCHANGED <<foodMemories, groups, markers, markerClickedRef,
                        selectedMemory, editedTags, editedNote>>
    /\ UNCHANGED <<mapCenter, viewerVars, food_memories, confirmVars>>

(***************************************************************************)
(* The fullscreen viewer                                                   *)
(***************************************************************************)

\* window.innerWidth, and the places of a click or of the end of a touch:
\* in the left third, on the two borders of the middle third, in the right
\* third.
ScreenWidth == 9
ClientXs == {1, 3, 6, 8}

\* The vertical distances of a touch, in px.
DiffYs == {0, 20}

\* x < screenWidth / 3 and x > (screenWidth * 2) / 3
inLeftThird(x) == 3 * x < ScreenWidth
inRightThird(x) == 3 * x > 2 * ScreenWidth

\* Math.abs
abs(n) == IF n < 0 THEN -n ELSE n

\* The touch was a tap: it moved less than 10 px either way.
isTap(diffX, diffY) == abs(diffX) < 10 /\ abs(diffY) < 10

\* handleTouchEnd of the viewer: the index after a touch that ended at x
\* and moved by diffX and diffY.
viewerTouchEnd(index, length, x, diffX, diffY) ==
    IF abs(diffX) > 50
    THEN IF diffX > 0 /\ index < length - 1 THEN index + 1
         ELSE IF diffX < 0 /\ index > 0 THEN index - 1
         ELSE index
    ELSE IF isTap(diffX, diffY) /\ length > 1
    THEN IF inLeftThird(x) /\ index > 0 THEN index - 1
         ELSE IF inRightThird(x) /\ index < length - 1 THEN index + 1
         ELSE index
    ELSE index

\* The viewer is mounted.
ViewerOpen == fullscreenData # NoFullscreen

\* onClose: setFullscreenData(null) unmounts the viewer.
onClose ==
    /\ fullscreenData' = NoFullscreen
    /\ viewerIndex' = 0

\* handleClick of the viewer with the index the last render had.
viewerClick(index, x) ==
    LET length == Len(fullscreenData.images)
    IN  IF length <= 1 THEN onClose
        ELSE IF inLeftThird(x) /\ index > 0
        THEN viewerIndex' = index - 1 /\ UNCHANGED fullscreenData
        ELSE IF inRightThird(x) /\ index < length - 1
        THEN viewerIndex' = index + 1 /\ UNCHANGED fullscreenData
        ELSE IF ~inLeftThird(x) /\ ~inRightThird(x) THEN onClose
        ELSE viewerIndex' = index /\ UNCHANGED fullscreenData

\* What the viewer leaves alone.
OutsideViewer ==
    <<markers, markerClickedRef, mapCenter, clientVars, foodMemories, groups>>

\* The image in the open popup of a marker is clicked.
onOpenFullscreen(key) ==
    /\ Rendered
    /\ ~ViewerOpen
    /\ LET group == GroupOfKey(groups, key)
       IN  /\ isSelected(group, selectedMemory.id)
           /\ fullscreenData' =
                  [images |-> [j \in 1..Len(group.memories) |->
                                  group.memories[j].id],
                   initialIndex |-> markers[key].currentIndex]
           /\ viewerIndex' = markers[key].currentIndex
    /\ UNCHANGED OutsideViewer

\* The thumbnail of a row of the list view is clicked.
ThumbnailClick(k) ==
    /\ Rendered
    /\ ~ViewerOpen
    /\ fullscreenData' = [images |-> <<foodMemories[k].id>>, initialIndex |-> 0]
    /\ viewerIndex' = 0
    /\ UNCHANGED OutsideViewer

\* A pointer click on the viewer at x.
ViewerClick(x) ==
    /\ ViewerOpen
    /\ viewerClick(viewerIndex, x)
    /\ UNCHANGED OutsideViewer

\* A touch on the viewer ends at x after moving by diffX and diffY:
\* handleTouchEnd runs, and after a tap the browser sends the click of the
\* tap, which handleClick takes with the index of the render in between.
ViewerTouch(x, diffX, diffY) ==
    /\ ViewerOpen
    /\ LET index == viewerTouchEnd(viewerIndex, Len(fullscreenData.images),
                                   x, diffX, diffY)
       IN  IF isTap(diffX, diffY) THEN viewerClick(index, x)
           ELSE viewerIndex' = index /\ UNCHANGED fullscreenData
    /\ UNCHANGED OutsideViewer

\* A segment of the progress bar is clicked.
ProgressClick(idx) ==
    /\ ViewerOpen
    /\ Len(fullscreenData.images) > 1
    /\ idx < Len(fullscreenData.images)
    /\ viewerIndex' = idx
    /\ UNCHANGED <<fullscreenData, OutsideViewer>>

\* The close button is clicked or Escape is pressed.
CloseClick ==
    /\ ViewerOpen
    /\ onClose
    /\ UNCHANGED OutsideViewer

(***************************************************************************)
(* Specifications                                                          *)
(***************************************************************************)

\* The upload route alone: the client's variables stay as they are.
InitUploadOnly ==
    /\ InitUpload
    /\ foodMemories = <<>>
    /\ gi = 0
    /\ groups = <<>>
    /\ listGroups = <<>>
    /\ InitPatch
    /\ InitBackfill
    /\ InitClient
    /\ InitView
    /\ InitConfirm

NextUpload ==
    \/ POST_Start
          /\ UNCHANGED <<groupVars, patchVars, backfillVars, clientVars, viewVars, confirmVars>>
    \/ FindNearbyReturns
          /\ UNCHANGED <<groupVars, patchVars, backfillVars, clientVars, viewVars, confirmVars>>
    \/ RemoveBgReturns
          /\ UNCHANGED <<groupVars, patchVars, backfillVars, clientVars, viewVars, confirmVars>>
    \/ POST_Identify
          /\ UNCHANGED <<groupVars, patchVars, backfillVars, clientVars, viewVars, confirmVars>>
    \/ IdentifyReturns
          /\ UNCHANGED <<groupVars, patchVars, backfillVars, clientVars, viewVars, confirmVars>>
    \/ POST_PutBlobs
          /\ UNCHANGED <<groupVars, patchVars, backfillVars, clientVars, viewVars, confirmVars>>
    \/ POST_Insert
          /\ UNCHANGED <<groupVars, patchVars, backfillVars, clientVars, viewVars, confirmVars>>

SpecUpload == InitUploadOnly /\ [][NextUpload]_vars

\* The grouping alone: no upload request is under way.
InitGroupOnly ==
    /\ InitGroup
    /\ InitUpload
    /\ InitPatch
    /\ InitBackfill
    /\ InitClient
    /\ InitView
    /\ InitConfirm

NextGroup ==
    \/ DishGroupsTurn
          /\ UNCHANGED <<uploadVars, patchVars, backfillVars, clientVars, viewVars, confirmVars>>
    \/ SortedDishGroupsTurn
          /\ UNCHANGED <<uploadVars, patchVars, backfillVars, clientVars, viewVars, confirmVars>>

SpecGroup == InitGroupOnly /\ [][NextGroup]_vars

\* The table under uploads and PATCH requests: no upload request of the
\* first specification and no grouping is under way.
InitPatchOnly ==
    /\ InitPatch
    /\ InitBackfill
    /\ InitClient
    /\ InitView
    /\ InitConfirm
    /\ InitUpload
    /\ foodMemories = <<>>
    /\ gi = 0
    /\ groups = <<>>
    /\ listGroups = <<>>

NextPatch ==
    \/ UploadInsert
          /\ UNCHANGED <<uploadVars, groupVars, backfillVars, clientVars, viewVars, confirmVars>>
    \/ \E r \in Requests, userId \in BOOLEAN, id \in IdParams, body \in Bodies :
           PATCH_Start(r, userId, id, body)
          /\ UNCHANGED <<uploadVars, groupVars, backfillVars, clientVars, viewVars, confirmVars>>
    \/ \E r \in Requests : PATCH_Lookup(r)
          /\ UNCHANGED <<uploadVars, groupVars, backfillVars, clientVars, viewVars, confirmVars>>
    \/ \E r \in Requests : PATCH_Update(r)
          /\ UNCHANGED <<uploadVars, groupVars, backfillVars, clientVars, viewVars, confirmVars>>

SpecPatch == InitPatchOnly /\ [][NextPatch]_vars

\* A backfill job over a table that carries labels of earlier runs: no
\* request of the other routes and no grouping is under way.
InitBackfillOnly ==
    /\ InitBackfill
    /\ InitClient
    /\ InitView
    /\ InitConfirm
    /\ food_memories \in UNION {LabelledTables(n) : n \in 1..MaxRows}
    /\ patchPc = [r \in Requests |-> "idle"]
    /\ patchId = [r \in Requests |-> 0]
    /\ patchBody = [r \in Requests |-> NoBody]
    /\ patchUrl = [r \in Requests |-> NullUrl]
    /\ lookupOut = [r \in Requests |-> "none"]
    /\ patchStatus = [r \in Requests |-> 0]
    /\ InitUpload
    /\ foodMemories = <<>>
    /\ gi = 0
    /\ groups = <<>>
    /\ listGroups = <<>>

NextBackfill ==
    \/ \E job \in Jobs, userId \in BOOLEAN :
           Backfill_Start(job, userId)

          /\ UNCHANGED <<uploadVars, groupVars, requestVars, clientVars, viewVars, confirmVars>>
    \/ Backfill_Rename
          /\ UNCHANGED <<uploadVars, groupVars, requestVars, clientVars, viewVars, confirmVars>>
    \/ Backfill_Select
          /\ UNCHANGED <<uploadVars, groupVars, requestVars, clientVars, viewVars, confirmVars>>
    \/ Backfill_Row
          /\ UNCHANGED <<uploadVars, groupVars, requestVars, clientVars, viewVars, confirmVars>>

SpecBackfill == InitBackfillOnly /\ [][NextBackfill]_vars

\* Tag editing: the table holds the rows the uploads created and the
\* client has fetched them; the client edits, the server answers.
InitTags ==
    /\ InitClient
    /\ InitView
    /\ InitConfirm
    /\ food_memories \in {<<r1, r2>> : r1 \in UploadedRows(1), r2 \in UploadedRows(2)}
    /\ foodMemories = food_memories
    /\ gi = 0
    /\ groups = <<>>
    /\ listGroups = <<>>
    /\ patchPc = [r \in Requests |-> "idle"]
    /\ patchId = [r \in Requests |-> 0]
    /\ patchBody = [r \in Requests |-> NoBody]
    /\ patchUrl = [r \in Requests |-> NullUrl]
    /\ lookupOut = [r \in Requests |-> "none"]
    /\ patchStatus = [r \in Requests |-> 0]
    /\ InitBackfill
    /\ InitUpload

OtherVars ==
    <<uploadVars, backfillVars, requestVars, gi, groups, listGroups, viewVars,
      confirmVars>>

NextTags ==
    \/ SelectMemory /\ UNCHANGED OtherVars
    \/ CloseSheet /\ UNCHANGED OtherVars
    \/ \E tagInput \in TagInputs : handleAddTag(tagInput) /\ UNCHANGED OtherVars
    \/ \E tag \in TagInputs : handleRemoveTag(tag) /\ UNCHANGED OtherVars
    \/ \E n \in 1..Len(requests) : PATCH_Default(n) /\ UNCHANGED OtherVars
    \/ \E n \in 1..Len(requests) :
           saveMemoryChanges_Response(n) /\ UNCHANGED OtherVars

SpecTags == InitTags /\ [][NextTags]_vars

\* The rest of the state in the following specifications.
RestVars == <<uploadVars, backfillVars, requestVars, gi, listGroups>>

InitRest ==
    /\ gi = 0
    /\ listGroups = <<>>
    /\ patchPc = [r \in Requests |-> "idle"]
    /\ patchId = [r \in Requests |-> 0]
    /\ patchBody = [r \in Requests |-> NoBody]
    /\ patchUrl = [r \in Requests |-> NullUrl]
    /\ lookupOut = [r \in Requests |-> "none"]
    /\ patchStatus = [r \in Requests |-> 0]
    /\ InitBackfill
    /\ InitUpload

\* Markers and selection: the table holds three records of one place, the
\* first and the last of one restaurant; the client fetches them, the user
\* taps rows, markers, dots and the map, swipes and tags, and the server
\* handles the saves and the PATCH requests of another session.
InitViewOnly ==
    /\ InitClient
    /\ InitView
    /\ InitConfirm
    /\ InitRest
    /\ food_memories \in
           {<<Located(Row(1, "Pho", "A", MapsUrl("A", "p1")), 44, 44),
              Located(r2, 44, 44),
              Located(Row(3, "Ramen", "A", MapsUrl("A", "p1")), 44, 44)>> :
                  r2 \in {Row(2, "Pho", NULL, NullUrl)}}
    /\ foodMemories = <<>>
    /\ groups = <<>>

NextView ==
    \/ \E ok \in BOOLEAN : fetchMemories(ok) /\ UNCHANGED RestVars
    \/ \E k \in 1..Len(foodMemories), isDesktop \in BOOLEAN :
           ListRowClick(k, isDesktop)
               /\ UNCHANGED <<RestVars, confirmVars, requests, food_memories>>
    \/ \E key \in DOMAIN markers, bubbles \in BOOLEAN, timerFirst \in BOOLEAN :
           MarkerClick(key, bubbles, timerFirst)
               /\ UNCHANGED <<RestVars, confirmVars, requests, food_memories>>
    \/ \E key \in DOMAIN markers, diff \in SwipeDiffs :
           handleTouchEnd(key, diff)
               /\ UNCHANGED <<RestVars, confirmVars, requests, food_memories>>
    \/ \E key \in DOMAIN markers, idx \in 0..MaxMemories :
           DotClick(key, idx)
               /\ UNCHANGED <<RestVars, confirmVars, requests, food_memories>>
    \/ MapClick /\ UNCHANGED <<RestVars, confirmVars, requests, food_memories>>
    \/ SheetAddTag("Sam") /\ UNCHANGED RestVars
    \/ \E n \in 1..Len(requests) : SheetPatch(n) /\ UNCHANGED RestVars
    \/ \E n \in 1..Len(requests) : SheetSaved(n) /\ UNCHANGED RestVars
    \/ \E id \in 1..Len(food_memories) :
           PATCH_Elsewhere(id, "B") /\ UNCHANGED RestVars

SpecView == InitViewOnly /\ [][NextView]_vars

\* Confirming: the table holds two records of one place; the client fetches
\* them, the user picks one photo taken at that place, edits the names in
\* the modal, confirms and deselects; the server answers.
InitConfirmOnly ==
    /\ InitClient
    /\ InitView
    /\ InitConfirm
    /\ InitRest
    /\ food_memories \in
           {<<Located(Row(1, "Pho", "A", MapsUrl("A", "p1")), 44, 44),
              Located(r2, 44, 44)>> : r2 \in UploadedRows(2)}
    /\ foodMemories = <<>>
    /\ groups = <<>>

NextConfirm ==
    \/ \E ok \in BOOLEAN : fetchMemories(ok) /\ UNCHANGED RestVars
    \/ MapClick /\ UNCHANGED <<RestVars, confirmVars, requests, food_memories>>
    \/ uploads = <<>> /\ handleFileSelect(Gps(44, 44)) /\ UNCHANGED RestVars
    \/ \E u \in 1..Len(uploads) :
           handleFileSelect_Exif(u, FALSE) /\ UNCHANGED RestVars
    \/ \E u \in 1..Len(uploads), end \in FetchEnds :
           handleFileSelect_Response(u, end) /\ UNCHANGED RestVars
    \/ \E value \in PendingDishNames :
           setPendingDishName(value) /\ UNCHANGED RestVars
    \/ \E value \in PendingRestaurantNames :
           setPendingRestaurantName(value) /\ UNCHANGED RestVars
    \/ handleConfirmUpload /\ UNCHANGED RestVars
    \/ \E c \in 1..Len(confirms), end \in FetchEnds :
           PATCH_Confirm(c, end, "results") /\ UNCHANGED RestVars
    \/ \E c \in 1..Len(confirms) :
           handleConfirmUpload_Resumes(c) /\ UNCHANGED RestVars

SpecConfirm == InitConfirmOnly /\ [][NextConfirm]_vars

\* Uploading: the same table; the user picks photos one after the other,
\* each with or without a location, confirms the suggested names as they
\* are and deselects; the server answers.
InitUploadsOnly ==
    /\ InitClient
    /\ InitView
    /\ InitConfirm
    /\ InitRest
    /\ food_memories \in
           {<<Located(Row(1, "Pho", "A", MapsUrl("A", "p1")), 44, 44),
              Located(r2, 44, 44)>> : r2 \in UploadedRows(2)}
    /\ foodMemories = <<>>
    /\ groups = <<>>

NextUploads ==
    \/ \E ok \in BOOLEAN : fetchMemories(ok) /\ UNCHANGED RestVars
    \/ MapClick /\ UNCHANGED <<RestVars, confirmVars, requests, food_memories>>
    \/ \E photo \in Photos : handleFileSelect(photo) /\ UNCHANGED RestVars
    \/ \E u \in 1..Len(uploads), threw \in BOOLEAN :
           handleFileSelect_Exif(u, threw) /\ UNCHANGED RestVars
    \/ \E u \in 1..Len(uploads), end \in FetchEnds :
           handleFileSelect_Response(u, end) /\ UNCHANGED RestVars
    \/ handleConfirmUpload /\ UNCHANGED RestVars

SpecUploads == InitUploadsOnly /\ [][NextUploads]_vars

\* The viewer: the table holds three records of one place, all of one
\* restaurant or the second of none; the client fetches them, the user
\* selects, deselects and swipes on the marker, opens
\* the viewer from the popup or from a thumbnail, clicks, taps and swipes in
\* it and closes it.  The viewer covers the page while it is open.
InitViewerOnly ==
    /\ InitClient
    /\ InitView
    /\ InitConfirm
    /\ InitRest
    /\ food_memories \in
           {<<Located(Row(1, "Pho", "A", MapsUrl("A", "p1")), 44, 44),
              Located(r2, 44, 44),
              Located(Row(3, "Ramen", "A", MapsUrl("A", "p1")), 44, 44)>> :
                  r2 \in UploadedRows(2)}
    /\ foodMemories = <<>>
    /\ groups = <<>>

PageVars == <<RestVars, confirmVars, requests, food_memories>>

NextViewer ==
    \/ fetchMemories(TRUE) /\ UNCHANGED RestVars
    \/ \E k \in 1..Len(foodMemories) :
           ~ViewerOpen /\ ListRowClick(k, FALSE) /\ UNCHANGED PageVars
    \/ \E key \in DOMAIN markers, diff \in SwipeDiffs :
           ~ViewerOpen /\ handleTouchEnd(key, diff) /\ UNCHANGED PageVars
    \/ ~ViewerOpen /\ MapClick /\ UNCHANGED PageVars
    \/ \E key \in DOMAIN markers : onOpenFullscreen(key) /\ UNCHANGED PageVars
    \/ \E k \in 1..Len(foodMemories) : ThumbnailClick(k) /\ UNCHANGED PageVars
    \/ \E x \in ClientXs : ViewerClick(x) /\ UNCHANGED PageVars
    \/ \E x \in ClientXs, diffX \in SwipeDiffs, diffY \in DiffYs :
           ViewerTouch(x, diffX, diffY) /\ UNCHANGED PageVars
    \/ \E idx \in 0..MaxMemories : ProgressClick(idx) /\ UNCHANGED PageVars
    \/ CloseClick /\ UNCHANGED PageVars

SpecViewer == InitViewerOnly /\ [][NextViewer]_vars

(***************************************************************************)
(* Properties of the upload route (checked under SpecUpload)               *)
(***************************************************************************)

Finite(x) == x.k = "num"
Failed(kind) == kind \in {"throw", "nonok"}
InLatitudeRange(x) == x.k = "num" /\ x.v >= -90 /\ x.v <= 90
InLongitudeRange(x) == x.k = "num" /\ x.v >= -180 /\ x.v <= 180

\* The request has been read (its fields are those of the state).
Arrived == pc # "idle"

\* No side effect has happened: no external call, no blob, no row.
NoSideEffect ==
    /\ placeCalls = 0
    /\ bgCalls = <<>>
    /\ identifyCalls = <<>>
    /\ blobs = {}
    /\ db = <<>>

\* The request was answered with the created row.
Answered200 == pc = "done" /\ response.status = 200

\* The row the request created (when Answered200).
CreatedRow == db[response.id]

\* Every removal attempt that was made has failed.
AllRemovalFailed ==
    /\ bgSettled
    /\ \A i \in 1..Len(bgCalls) : Failed(bgCalls[i].result)

\* C1: a request with no image part, or with a latitude or longitude that is
\* no finite number, is answered 400, and makes no place-search, removal or
\* identification call, writes no blob and inserts no row.
C1_Invalid400NoEffect ==
    (Arrived /\ (~original \/ ~Finite(latitude) \/ ~Finite(longitude)))
        => /\ NoSideEffect
           /\ pc = "done"
           /\ response.status = 400

\* C2: an upload with a latitude outside [-90, 90] or a longitude outside
\* [-180, 180] creates no row, so every row of the table has its latitude in
\* [-90, 90] and its longitude in [-180, 180].
C2_StoredCoordinatesInRange ==
    /\ (Arrived /\ ~(InLatitudeRange(latitude) /\ InLongitudeRange(longitude)))
           => db = <<>>
    /\ \A i \in 1..Len(db) :
           InLatitudeRange(db[i].latitude) /\ InLongitudeRange(db[i].longitude)

\* C3: every created row has a display image reference that is not null and
\* refers to a written blob: the processed bytes of the attempt that
\* succeeded, or the original bytes when every attempt failed.
C3_DisplayImage ==
    \A i \in 1..Len(db) :
        /\ db[i].cropped_image_url # NullRef
        /\ \E b \in blobs :
            /\ b.url = db[i].cropped_image_url
            /\ b.content # NULL
            /\ \A j \in 1..Len(bgCalls) :
                   bgCalls[j].result = "ok" => b.content = ProcessedBytes(bgCalls[j].type)
            /\ AllRemovalFailed => b.content = imageArrayBuffer

\* C3 witness: both removal attempts failed and the created row's display
\* image is a blob holding the original bytes.
C3_Witness ==
    /\ Answered200
    /\ Len(bgCalls) = 2
    /\ AllRemovalFailed
    /\ [url |-> CreatedRow.cropped_image_url, content |-> imageArrayBuffer] \in blobs

\* The errors of the storage step: a put, the timestamp conversion or the
\* INSERT.
StorageErrors == {"put failed", "insert failed"}

\* C4: once a request has passed validation, a failure of the place search,
\* of the background removal or of the identification never aborts it: the
\* request goes on to the next step in every state before the response, and
\* a response is either the created row or the error of the storage step,
\* reached after all three calls have settled.
C4_ExternalFailuresNeverAbort ==
    /\ (Arrived /\ pc # "done") => ENABLED NextUpload
    /\ (pc = "done" /\ response.status # 400) =>
           /\ PlaceSettled
           /\ bgSettled
           /\ identifyOutcome \in {"nokey", "throw", "nonok", "ok"}
           /\ response.status \in {200, 500}
           /\ response.status = 500 => response.error \in StorageErrors
           /\ response.status = 200 =>
                  /\ response.id \in 1..Len(db)
                  /\ [url |-> CreatedRow.original_image_url,
                      content |-> imageArrayBuffer] \in blobs

\* C4 witness: the place search, both removal attempts and the
\* identification all failed, and the row was created and returned.
C4_Witness ==
    /\ Answered200
    /\ Failed(placeOutcome)
    /\ Len(bgCalls) = 2
    /\ AllRemovalFailed
    /\ Failed(identifyOutcome)
    /\ CreatedRow.id = response.id

\* C5: the removal service is called with the primary mode first and with
\* the secondary mode only after the primary attempt has failed; each mode is
\* tried at most once; a successful attempt is the last one; the result is
\* null exactly when both attempts failed.
C5_RemovalAttempts ==
    /\ Len(bgCalls) <= 2
    /\ Len(bgCalls) >= 1 => bgCalls[1].type = "auto"
    /\ Len(bgCalls) = 2 =>
           bgCalls[2].type = "product" /\ Failed(bgCalls[1].result)
    /\ \A i \in 1..Len(bgCalls) : bgCalls[i].result = "ok" => i = Len(bgCalls)
    /\ bgSettled =>
           (bgRemovedBuffer = NULL
               <=> (Len(bgCalls) = 2 /\ \A i \in 1..2 : Failed(bgCalls[i].result)))
    /\ ~bgSettled /\ bgCalls # <<>> => bgCalls[Len(bgCalls)].result = "pending"

\* C5 witness: the primary attempt ended in a transport error and the
\* secondary one succeeded.
C5_Witness ==
    /\ bgSettled
    /\ Len(bgCalls) = 2
    /\ bgCalls[1].result = "throw"
    /\ bgCalls[2].result = "ok"
    /\ bgRemovedBuffer = ProcessedBytes("product")

\* C6: the identification is started only when the place search and the
\* background removal have both completed, it is started at most once, and
\* the candidate list it is given is the list the place search returned.
C6_IdentifyAfterBoth ==
    /\ (identifyOutcome # "none" \/ identifyCalls # <<>>) =>
           PlaceSettled /\ bgSettled
    /\ Len(identifyCalls) <= 1
    /\ \A i \in 1..Len(identifyCalls) : identifyCalls[i] = restaurants

\* C6 witness: the identification request is in flight with a non-empty
\* candidate list, after a removal that needed both attempts.
C6_Witness ==
    /\ pc = "identify"
    /\ identifyCalls = <<restaurants>>
    /\ Len(restaurants) = 2
    /\ Len(bgCalls) = 2

\* C7: the restaurant name of every created row is null or the name of a
\* candidate of the place search; with no candidate, the name and the place
\* link are null.
C7_RestaurantAmongCandidates ==
    \A i \in 1..Len(db) :
        /\ \/ db[i].restaurant_name = NULL
           \/ \E j \in 1..Len(restaurants) :
                  restaurants[j].name = db[i].restaurant_name
        /\ restaurants = <<>> =>
               db[i].restaurant_name = NULL /\ db[i].google_maps_url = NullUrl

\* C8 as stated: when the identification call fails outright, the dish name
\* and the restaurant name of the created row are both null.
C8_FailureGivesNulls ==
    (Answered200 /\ Failed(identifyOutcome)) =>
        CreatedRow.dish_name = NULL /\ CreatedRow.restaurant_name = NULL

\* C8 amended: when the identification call fails outright, the dish name of
\* the created row is null and its restaurant name is the name of the first
\* candidate, null only when there is no candidate; the place link is the
\* first candidate's.
C8_FailureGivesFirstCandidate ==
    (Answered200 /\ Failed(identifyOutcome)) =>
        /\ CreatedRow.dish_name = NULL
        /\ IF restaurants = <<>>
           THEN /\ CreatedRow.restaurant_name = NULL
                /\ CreatedRow.google_maps_url = NullUrl
           ELSE /\ CreatedRow.restaurant_name = restaurants[1].name
                /\ CreatedRow.google_maps_url.query = restaurants[1].name
                /\ CreatedRow.google_maps_url # NullUrl

\* C8 witness: the identification answered with a non-success status, there
\* were candidates, and the created row names the first of them.
C8_Witness ==
    /\ Answered200
    /\ identifyOutcome = "nonok"
    /\ Len(restaurants) = 2
    /\ restaurants[1].name # restaurants[2].name
    /\ CreatedRow.restaurant_name = restaurants[1].name

\* C9: the place link of every created row is null or built from the place
\* identifier of a candidate whose name is the row's restaurant name; a null
\* restaurant name comes with a null link; the upload sends at most the one
\* nearby search.
C9_PlaceLinkFromCandidate ==
    /\ placeCalls <= 1
    /\ \A i \in 1..Len(db) :
        /\ \/ db[i].google_maps_url = NullUrl
           \/ \E j \in 1..Len(restaurants) :
                  /\ restaurants[j].name = db[i].restaurant_name
                  /\ db[i].google_maps_url =
                         MapsUrl(restaurants[j].name, restaurants[j].place_id)
        /\ db[i].restaurant_name = NULL => db[i].google_maps_url = NullUrl

\* C9 witness: the vision model chose the second candidate and the created
\* row's link carries that candidate's place identifier.
C9_Witness ==
    /\ Answered200
    /\ identifyOutcome = "ok"
    /\ Len(restaurants) = 2
    /\ restaurants[1].name # restaurants[2].name
    /\ CreatedRow.restaurant_name = restaurants[2].name
    /\ CreatedRow.google_maps_url =
           MapsUrl(restaurants[2].name, restaurants[2].place_id)
    /\ placeCalls = 1

(***************************************************************************)
(* Properties of the proximity grouping (checked under SpecGroup)          *)
(***************************************************************************)

\* The records the loop has gone through.
Grouped == {foodMemories[k] : k \in 1..gi}

\* C10: every record whose restaurant name is null (or empty) is the only
\* member of its group: it is not added to an existing group and no later
\* record is added to its group, whatever the coordinates.
C10_NullRestaurantAlone ==
    /\ \A m \in Grouped :
           Falsy(m.restaurant_name) =>
               \E g \in 1..Len(groups) : groups[g].memories = <<m>>
    /\ \A g \in 1..Len(groups) :
           (\E k \in 1..Len(groups[g].memories) :
                Falsy(groups[g].memories[k].restaurant_name))
               => Len(groups[g].memories) = 1

\* C10 witness: the first and the last of three records have a null
\* restaurant name and the same coordinates, the loop is over, and there are
\* three groups.
C10_Witness ==
    /\ Len(foodMemories) = 3
    /\ gi = 3
    /\ foodMemories[1].restaurant_name = NULL
    /\ foodMemories[3].restaurant_name = NULL
    /\ foodMemories[1].latitude = foodMemories[3].latitude
    /\ foodMemories[1].longitude = foodMemories[3].longitude
    /\ Len(groups) = 3

\* A record fits a group when its name is the name of the group's first
\* member and it lies within the threshold of that member.
FitsFirstMember(g, m) ==
    LET first == g.memories[1]
    IN  /\ first.restaurant_name = m.restaurant_name
        /\ getDistanceMeters(first.latitude, first.longitude,
                             m.latitude, m.longitude) <= Threshold

\* C11: a record with a restaurant name is a member of the first group, in
\* creation order, whose first member has exactly its name and lies within
\* 50 m of it; a group's coordinate is always that of its first member,
\* whatever has been appended since.
C11_FirstMatchingGroup ==
    /\ \A g \in 1..Len(groups) :
           /\ groups[g].latitude = groups[g].memories[1].latitude
           /\ groups[g].longitude = groups[g].memories[1].longitude
    /\ \A m \in Grouped :
           ~Falsy(m.restaurant_name) =>
               \E g \in 1..Len(groups) :
                   /\ \E k \in 1..Len(groups[g].memories) :
                          groups[g].memories[k] = m
                   /\ FitsFirstMember(groups[g], m)
                   /\ \A h \in 1..Len(groups) :
                          h # g => \A k \in 1..Len(groups[h].memories) :
                                       groups[h].memories[k] # m
                   /\ \A h \in 1..(g - 1) : ~FitsFirstMember(groups[h], m)

\* C11 witness: three records of one name; the second is 51 m from the first
\* and makes its own group, the third is within 50 m of both and has joined
\* the first group, whose coordinate is still the first record's.
C11_Witness ==
    /\ Len(foodMemories) = 3
    /\ gi = 3
    /\ \A k \in 1..3 : foodMemories[k].restaurant_name = "A"
    /\ Len(groups) = 2
    /\ groups[1].memories = <<foodMemories[1], foodMemories[3]>>
    /\ groups[2].memories = <<foodMemories[2]>>
    /\ FitsFirstMember(groups[2], foodMemories[3])
    /\ groups[1].latitude = foodMemories[1].latitude
    /\ foodMemories[3].latitude # foodMemories[1].latitude

\* The two records of a two-record list, and how far apart they lie north to
\* south in grid units: 44 units are 48.9 m, 46 units are 51.1 m.
Separation ==
    LET d == foodMemories[1].latitude - foodMemories[2].latitude
    IN  IF d < 0 THEN -d ELSE d

\* The whole two-record list has been grouped into one group.
Together == Len(groups) = 1 /\ groups[1].memories = foodMemories

\* The whole two-record list has been grouped into two groups of one.
Apart ==
    /\ Len(groups) = 2
    /\ groups[1].memories = <<foodMemories[1]>>
    /\ groups[2].memories = <<foodMemories[2]>>

\* C12: two records with restaurant names, given as the whole input, land in
\* the same group if and only if their names are identical (case matters) and
\* they are at most 50 m apart: the same name at 0 m or 49 m gives one group,
\* the same name at 51 m gives two, and different names give two groups at
\* any distance.
C12_SameGroupIffSameNameWithin50 ==
    (/\ Len(foodMemories) = 2
     /\ gi = 2
     /\ ~Falsy(foodMemories[1].restaurant_name)
     /\ ~Falsy(foodMemories[2].restaurant_name)
     /\ foodMemories[1].longitude = foodMemories[2].longitude)
        => LET sameName == foodMemories[1].restaurant_name
                               = foodMemories[2].restaurant_name
           IN  /\ (sameName /\ Separation <= 44) => Together
               /\ (sameName /\ Separation >= 46) => Apart
               /\ ~sameName => Apart
               /\ Together \/ Apart

\* C12 witness: "A" and "a" at the same point have been grouped apart.
C12_Witness ==
    /\ Len(foodMemories) = 2
    /\ gi = 2
    /\ foodMemories[1].restaurant_name = "A"
    /\ foodMemories[2].restaurant_name = "a"
    /\ Separation = 0
    /\ Apart

\* The list view has been derived.
Listed == listGroups # <<>>

\* The instant a record is dated by: its capture timestamp if it has one,
\* else its creation timestamp.
DatedAt(m) ==
    IF m.photo_taken_at # NULL /\ m.photo_taken_at # ""
    THEN getTime(m.photo_taken_at)
    ELSE getTime(m.created_at)

\* d is the latest date among the members of group g.
LatestIs(g, d) ==
    /\ \E k \in 1..Len(g.memories) : DatedAt(g.memories[k]) = d
    /\ \A k \in 1..Len(g.memories) : DatedAt(g.memories[k]) <= d

\* C13: the list-view order is a permutation of the marker-order groups in
\* descending order of each group's latest member date (capture timestamp
\* if present, else creation timestamp), so a record captured later is
\* listed before one captured earlier whatever their creation order; the
\* marker-order list is still in the order the groups were created.
C13_ListViewByLatestDate ==
    Listed =>
        /\ Len(listGroups) = Len(groups)
        /\ \A g \in 1..Len(groups) :
               \E i \in 1..Len(listGroups) : listGroups[i] = groups[g]
        /\ \A i \in 1..Len(listGroups) : \A j \in (i + 1)..Len(listGroups) :
               \A di \in 1..3, dj \in 1..3 :
                   (LatestIs(listGroups[i], di) /\ LatestIs(listGroups[j], dj))
                       => di >= dj
        /\ \A i \in 1..Len(listGroups), j \in 1..Len(listGroups) :
               LET a == listGroups[i].memories
                   b == listGroups[j].memories
               IN  (/\ Len(a) = 1 /\ Len(b) = 1
                    /\ a[1].photo_taken_at # NULL /\ b[1].photo_taken_at # NULL
                    /\ getTime(a[1].photo_taken_at) > getTime(b[1].photo_taken_at))
                       => i < j
        /\ \A g \in 1..Len(groups) : \A h \in (g + 1)..Len(groups) :
               groups[g].memories[1].id < groups[h].memories[1].id

\* C13 witness: two records on their own; the first was created later but
\* captured earlier than the second, and the list view shows the second
\* first while the marker order still has the first first.
C13_Witness ==
    /\ Listed
    /\ Len(foodMemories) = 2
    /\ foodMemories[1].restaurant_name = NULL
    /\ foodMemories[2].restaurant_name = NULL
    /\ foodMemories[1].photo_taken_at = "T1"
    /\ foodMemories[2].photo_taken_at = "T3"
    /\ foodMemories[1].created_at = "T2"
    /\ foodMemories[2].created_at = "T1"
    /\ listGroups = <<groups[2], groups[1]>>
    /\ groups[1].memories = <<foodMemories[1]>>

\* The places <<g, j>> of the groups at which a record is a member.
PlacesOf(m) ==
    {p \in (1..Len(groups)) \X (1..MaxMemories + 1) :
        /\ p[2] <= Len(groups[p[1]].memories)
        /\ groups[p[1]].memories[p[2]] = m}

\* The position of a record in the input list (ids are the positions).
InputIndex(m) == CHOOSE k \in 1..Len(foodMemories) : foodMemories[k] = m

\* C25: grouping is an order-preserving partition of its input: every record
\* the loop has gone through is a member of exactly one group exactly once,
\* no other record is a member, the groups are in the order in which their
\* first members appear in the input, and the members of each group are in
\* input order.
C25_OrderPreservingPartition ==
    /\ \A k \in 1..Len(foodMemories) :
           Cardinality(PlacesOf(foodMemories[k])) = IF k <= gi THEN 1 ELSE 0
    /\ \A g \in 1..Len(groups) :
           /\ groups[g].memories # <<>>
           /\ \A j \in 1..Len(groups[g].memories) :
                  groups[g].memories[j] \in Grouped
           /\ \A i, j \in 1..Len(groups[g].memories) :
                  i < j => InputIndex(groups[g].memories[i])
                               < InputIndex(groups[g].memories[j])
    /\ \A g, h \in 1..Len(groups) :
           g < h => InputIndex(groups[g].memories[1])
                        < InputIndex(groups[h].memories[1])

\* C25 witness: of three records the first and the third share a group and
\* the second, met between them, has a group of its own after theirs.
C25_Witness ==
    /\ gi = 3
    /\ Len(groups) = 2
    /\ groups[1].memories = <<foodMemories[1], foodMemories[3]>>
    /\ groups[2].memories = <<foodMemories[2]>>

(***************************************************************************)
(* Properties of the PATCH route (checked under SpecPatch)                 *)
(***************************************************************************)

\* Request r is answered in this step, with the given status.
Answers(r, status) ==
    /\ patchPc[r] # "done"
    /\ patchPc'[r] = "done"
    /\ patchStatus'[r] = status

\* C14: PATCH is a partial update: a request that is answered with the
\* updated row and whose payload carries no friend tags (no personal note,
\* no dish name) leaves the stored friend tags (personal note, dish name) of
\* the row as they were.
C14_AbsentFieldsUnchanged ==
    [][\A r \in Requests :
           Answers(r, 200) =>
               LET body == patchBody'[r]
                   old == food_memories[patchId'[r]]
                   new == food_memories'[patchId'[r]]
               IN  /\ body.friend_tags.kind = "undefined"
                          => new.friend_tags = old.friend_tags
                   /\ body.personal_note = UNDEFINED
                          => new.personal_note = old.personal_note
                   /\ body.dish_name = UNDEFINED
                          => new.dish_name = old.dish_name]_vars

\* The place ids a search for the name can yield: those of the text search
\* and those of the nearby candidates of that name.
PlaceIdsFor(name) ==
    {TextSearch(name)[k].place_id : k \in 1..Len(TextSearch(name))}
        \cup {place.place_id : place \in {c \in Places : c.name = name}}

\* The link was resolved for the name.
ResolvedFor(url, name) ==
    /\ name # NULL
    /\ url.query_place_id \in PlaceIdsFor(name)

\* C15: in every state of the table, whatever uploads and PATCH requests
\* have run and however two PATCHes of one row interleave their read, lookup
\* and write, each row's place link is null or was resolved for the row's
\* current restaurant name; in particular no PATCH that changes or clears
\* the name leaves the previous link behind.
C15_LinkMatchesCurrentName ==
    \A i \in 1..Len(food_memories) :
        \/ food_memories[i].google_maps_url = NullUrl
        \/ ResolvedFor(food_memories[i].google_maps_url,
                       food_memories[i].restaurant_name)

\* C15 witness: two PATCHes of row 1, one naming "A" and one naming "B",
\* have both looked their place up and both been answered 200; the row
\* carries the name and the link of the second, which wrote last.
C15_Witness ==
    /\ patchStatus["r1"] = 200 /\ patchStatus["r2"] = 200
    /\ patchId["r1"] = 1 /\ patchId["r2"] = 1
    /\ patchBody["r1"].restaurant_name = "A"
    /\ patchBody["r2"].restaurant_name = "B"
    /\ patchUrl["r1"] # NullUrl
    /\ patchUrl["r2"] # NullUrl
    /\ food_memories[1].restaurant_name = "B"
    /\ food_memories[1].google_maps_url = patchUrl["r2"]

\* Request r has called the text search.
Called(r) == lookupOut[r] \in {"throw", "noresults", "results"}

Handles(r) ==
    /\ patchPc[r] # "done"
    /\ patchPc'[r] # patchPc[r]
    /\ patchId'[r] # 0

\* C17: a PATCH for an id that is not in the table is answered 404 (500 if
\* the statement itself fails), changes no row and makes no lookup call,
\* with a restaurant name in the payload and without.
C17_UnknownId404 ==
    [][\A r \in Requests :
           (Handles(r) /\ patchId'[r] \notin 1..Len(food_memories)) =>
               /\ patchPc'[r] = "done"
               /\ patchStatus'[r] \in {404, 500}
               /\ food_memories' = food_memories
               /\ lookupOut'[r] = "none"]_vars

\* C17 witness: the table holds one row; a PATCH of id 2 with a restaurant
\* name and a PATCH of id 2 without one have both been answered 404, no
\* lookup was made and the row is as the upload created it.
C17_Witness ==
    /\ Len(food_memories) = 1
    /\ food_memories[1] \in UploadedRows(1)
    /\ patchId["r1"] = 2 /\ patchId["r2"] = 2
    /\ patchBody["r1"].restaurant_name = "A"
    /\ patchBody["r2"].restaurant_name = UNDEFINED
    /\ patchStatus["r1"] = 404 /\ patchStatus["r2"] = 404
    /\ lookupOut["r1"] = "none" /\ lookupOut["r2"] = "none"

(***************************************************************************)
(* Properties of the backfill jobs (checked under SpecBackfill)            *)
(***************************************************************************)

\* C18: no step of a backfill job overwrites a neighborhood or a borough
\* that is not null: a row that has one keeps it, whatever the geocoding
\* service returns, so after the run every label that was there before is
\* still the same.
C18_LabelsNeverOverwritten ==
    [][\A i \in 1..Len(food_memories) :
           /\ food_memories[i].neighborhood # NULL
                  => food_memories'[i].neighborhood = food_memories[i].neighborhood
           /\ food_memories[i].borough # NULL
                  => food_memories'[i].borough = food_memories[i].borough]_vars

(***************************************************************************)
(* Properties of tag editing (checked under SpecTags)                      *)
(***************************************************************************)

\* C19: when a tag has been added to a record and removed again, each with
\* its own PATCH, and both requests have been answered with the updated row,
\* the stored friend tags of the record are null, in whichever order the
\* server handled the two requests.
C19_AddThenRemoveLeavesNull ==
    (/\ Len(requests) = 2
     /\ requests[1].id = requests[2].id
     /\ requests[1].body.friend_tags.kind = "array"
     /\ requests[2].body.friend_tags = NullTags
     /\ requests[1].state = "ok"
     /\ requests[2].state = "ok")
        => food_memories[requests[1].id].friend_tags = NullTags

\* The client takes the answer to its n-th request in this step.
Completes(n) == ~requests[n].handled /\ requests'[n].handled

\* C29: the completion of a save never changes which record is selected:
\* after the step in which the client takes the answer to a PATCH, the
\* selected record has the id it had before (or none is selected, as
\* before), and of the list only the entry of the patched record may differ.
C29_SaveKeepsSelection ==
    [][\A n \in 1..Len(requests) :
          Completes(n) =>
              /\ selectedMemory'.id = selectedMemory.id
              /\ \A k \in 1..Len(foodMemories) :
                     foodMemories[k].id # requests[n].id
                         => foodMemories'[k] = foodMemories[k]]_vars

\* No entry of the list occurs twice.
NoDuplicates(tags) ==
    \A i \in 1..Len(tags), j \in 1..Len(tags) : i # j => tags[i] # tags[j]

\* C20: in every state the friend tags of every stored row and the client's
\* tag buffer hold no entry twice (entries compared exactly, case included).
C20_NoDuplicateTags ==
    /\ NoDuplicates(editedTags)
    /\ \A i \in 1..Len(food_memories) :
           NoDuplicates(food_memories[i].friend_tags.items)

(***************************************************************************)
(* Properties of markers and selection (checked under SpecView)            *)
(***************************************************************************)

\* C21: selection toggles and replaces.  A tap on the list row or on the
\* marker of the selected record leaves no record selected, and a tap on the
\* list row of any other record r leaves r selected once the effects have
\* run, also when r is not the first member of a group of several records
\* whose marker is mounted.
C21_SelectionTogglesAndReplaces ==
    [][/\ \A k \in 1..Len(foodMemories), isDesktop \in BOOLEAN :
              ListRowClick(k, isDesktop) =>
                  selectedMemory'.id =
                      IF selectedMemory.id = foodMemories[k].id THEN 0
                      ELSE foodMemories[k].id
       /\ \A key \in DOMAIN markers, bubbles \in BOOLEAN, timerFirst \in BOOLEAN :
              (/\ Rendered
               /\ isSelected(GroupOfKey(groups, key), selectedMemory.id)
               /\ MarkerClick(key, bubbles, timerFirst))
                  => selectedMemory'.id = 0]_vars

\* C22: after any sequence of marker taps, swipes, dot selections and list
\* taps, a click on the bare map that no marker click accompanies leaves no
\* record selected, and the flag a marker interaction sets is taken back
\* within the tick that set it: it is never found set between two events.
C22_MapClickClears ==
    [][/\ MapClick => selectedMemory'.id = 0
       /\ ~markerClickedRef']_vars

\* The index a swipe of diff px has to give, by the rule of the 50 px
\* threshold: one further in the direction of the swipe unless at that end.
AfterSwipe(index, members, diff) ==
    IF diff > 50 THEN (IF index = members - 1 THEN index ELSE index + 1)
    ELSE IF diff < -50 THEN (IF index = 0 THEN index ELSE index - 1)
    ELSE index

\* The cursor of every mounted marker is an index of its group's members.
CursorsInRange(ms, gs) ==
    \A key \in DOMAIN ms :
        /\ ms[key].currentIndex >= 0
        /\ ms[key].currentIndex <= Len(GroupOfKey(gs, key).memories) - 1

\* C23: the cursor of a marker of several dishes satisfies
\* 0 <= index <= members - 1 after any sequence of swipes, dot taps,
\* selections and regroupings; a swipe of more than 50 px moves it by exactly
\* one in the direction of the swipe unless it is at that end, and a swipe
\* of 50 px or less changes nothing.
C23_CursorInRange ==
    [][/\ CursorsInRange(markers', groups')
       /\ \A key \in DOMAIN markers, diff \in SwipeDiffs :
              handleTouchEnd(key, diff) =>
                  markers'[key].currentIndex =
                      AfterSwipe(markers[key].currentIndex,
                                 Len(GroupOfKey(groups, key).memories), diff)]_vars

(***************************************************************************)
(* Properties of uploading and confirming (checked under SpecConfirm)      *)
(***************************************************************************)

\* The visible list holds a record of that id.
InList(list, id) == \E k \in 1..Len(list) : list[k].id = id

\* The confirmation of that record has completed in this step.
Merged(memory) ==
    /\ foodMemories'[1].id = memory.id
    /\ selectedMemory'.id = memory.id
    /\ mapCenter' = <<memory.latitude, memory.longitude>>
    /\ pendingMemory'.id = 0

\* C24: after a successful upload the new record is pending and is not in
\* the visible list until the user confirms; a press of Confirm sends one
\* PATCH if the dish name or the restaurant name differs from the suggested
\* value and none otherwise; when the confirmation completes the record is
\* at the front of the visible list, it is the selected record, the map is
\* centred on it and no record is pending.
C24_PendingUntilConfirmed ==
    [][/\ pendingMemory'.id # 0 => ~InList(foodMemories', pendingMemory'.id)
       /\ handleConfirmUpload =>
              Len(confirms') = Len(confirms) + (IF sendsPatch THEN 1 ELSE 0)
       /\ (handleConfirmUpload /\ ~sendsPatch) => Merged(pendingMemory)
       /\ \A c \in 1..Len(confirms) :
              handleConfirmUpload_Resumes(c) => Merged(confirms[c].pendingMemory)]_vars

\* The runs of handleFileSelect that have not reached their finally block.
Running == {u \in 1..Len(uploads) : uploads[u].pc # "done"}

\* C26: at most one upload is in flight at any time on a client: from the
\* moment a file is selected until that attempt has finished (with a
\* pending record, a validation failure or an error) the upload trigger is
\* disabled, and after every outcome it is enabled again.
C26_OneUploadInFlight ==
    /\ Cardinality(Running) <= 1
    /\ uploading <=> Running # {}

\* A second upload is on its way after the first has ended.
C26_Witness ==
    /\ Len(uploads) = 2
    /\ uploads[1].pc = "done"
    /\ uploads[2].pc = "fetch"
    /\ uploading

\* C30: the client sends the upload request for a selected photo if and
\* only if the metadata of the photo holds a GPS latitude and longitude: a
\* photo without GPS data ends in the no-location error and no request, and
\* every photo with GPS data is uploaded, also one whose latitude or
\* longitude is exactly 0.
C30_UploadedIffGps ==
    [][\A u \in 1..Len(uploads) :
          handleFileSelect_Exif(u, FALSE) =>
              IF uploads[u].photo.found
              THEN uploads'[u].pc = "fetch" /\ error' = NULL
              ELSE /\ uploads'[u].pc = "done"
                   /\ error' = "No location data found in this photo."]_vars

\* C28: each record id occurs at most once in the list of the client, in
\* every state reachable by the initial fetch, uploads, confirmations and
\* save completions, also when Confirm is pressed a second time before the
\* PATCH of the first confirmation has been answered.
C28_IdsOccurOnce ==
    \A i \in 1..Len(foodMemories), j \in 1..Len(foodMemories) :
        i # j => foodMemories[i].id # foodMemories[j].id

(***************************************************************************)
(* Properties of the fullscreen viewer (checked under SpecViewer)          *)
(***************************************************************************)

\* The viewer is open after the step with that index and the same images.
Shows(index) ==
    /\ fullscreenData' = fullscreenData
    /\ viewerIndex' = index

\* C27: the index of the fullscreen viewer stays within 0..images-1; a
\* pointer click in the left third of the screen goes to the previous image,
\* one in the right third to the next image (each as far as there is one)
\* and one in the middle third closes the viewer; a single tap moves the
\* index by at most one.
C27_ViewerIndex ==
    [][/\ /\ viewerIndex' >= 0
          /\ fullscreenData' # NoFullscreen
                 => viewerIndex' <= Len(fullscreenData'.images) - 1
       /\ \A x \in ClientXs :
              (ViewerClick(x) /\ Len(fullscreenData.images) > 1) =>
                  IF inLeftThird(x)
                  THEN Shows(IF viewerIndex = 0 THEN 0 ELSE viewerIndex - 1)
                  ELSE IF inRightThird(x)
                  THEN Shows(IF viewerIndex = Len(fullscreenData.images) - 1
                             THEN viewerIndex ELSE viewerIndex + 1)
                  ELSE fullscreenData' = NoFullscreen
       /\ \A x \in ClientXs, diffX \in SwipeDiffs, diffY \in DiffYs :
              (ViewerTouch(x, diffX, diffY) /\ isTap(diffX, diffY)) =>
                  \/ fullscreenData' = NoFullscreen
                  \/ abs(viewerIndex' - viewerIndex) <= 1]_vars

====
